---- MODULE Spec2Model ----
(***************************************************************************)
(* Model of the device-ping agent: the HTTP gateway of server/server.js    *)
(* and its framed-TCP protocol engine sendCommandTcp, run against a        *)
(* terminal that is free to accept or refuse the connection, stay silent,  *)
(* send any frames in any chunking, or close the connection.               *)
(*                                                                         *)
(* Time is discrete.  A timer holds the number of ticks left before it     *)
(* expires; Tick is disabled while an expired timer has not run its        *)
(* callback, so a callback runs in the tick in which its timer expires,    *)
(* in any order with the other events of that tick.                        *)
(***************************************************************************)
EXTENDS Integers, Sequences, FiniteSets, TLC

\* ------------------------------------------------------------------ bounds
\* frames a terminal writes on one connection
MaxFrames == 2

\* request slots: one per HTTP client that may be connected at a time
Reqs == {1, 2}

\* ------------------------------------------------------- framing bytes
STX == "STX"
LF == "LF"
ETX == "ETX"

\* A JSON text is one symbol of the byte stream: the text of an object
\* whose message field has that value.  NonJson is text JSON.parse rejects.
AckMessage == "ACK"
ProgressMessages == {"EVT", "DSP", "PIN", "CNF", "READY"}
UnknownMessage == "XYZ"
FinalMessages_withUnknown == {"RSP", "ERR", "MSG", UnknownMessage}
FinalMessages == {"RSP", "ERR", "MSG"}
NonJson == "x"
Messages == {AckMessage} \cup ProgressMessages \cup {"RSP", "ERR", "MSG"} \cup {UnknownMessage}

\* The texts a terminal puts in its frames depend on its firmware.  The first
\* is the vocabulary of the emulator of this repository (ACK, then a final
\* MSG) plus line noise; together they cover every message value.
EmulatorTexts == {"ACK", "MSG", NonJson}
Firmwares ==
  {EmulatorTexts, {"CNF", "RSP", UnknownMessage}, {"EVT", "READY", "ERR"}, {"DSP", "PIN", "MSG"}}

\* err.message of the socket errors the run-time raises
ErrMessages == {"connect ECONNREFUSED", "read ECONNRESET"}

\* frameJson: <STX><LF> json <LF><ETX><LF>
frameJson(text) == <<STX, LF, text, LF, ETX, LF>>

\* the byte stream of a sequence of frames
RECURSIVE Frames(_)
Frames(texts) == IF texts = <<>> THEN <<>> ELSE frameJson(Head(texts)) \o Frames(Tail(texts))

\* what a terminal of some firmware may write between two chunks
Scripts == UNION {[1..k -> fw] : k \in 0..MaxFrames, fw \in Firmwares}

FrameLen == Len(frameJson(""))

\* Where a chunk may end inside a frame: after the JSON text (the frame is
\* open), after the ETX (the frame is complete, its trailing LF in flight),
\* or at the end of the frame.
Cuts == {3, FrameLen - 1, FrameLen}

\* ------------------------------------------------------------ helpers
\* Buffer.indexOf(b, from): positions are 1-based here, 0 is "not found"
IndexOf(buf, b, from) ==
  LET hits == {i \in from..Len(buf) : buf[i] = b}
  IN IF hits = {} THEN 0 ELSE CHOOSE i \in hits : \A j \in hits : i <= j

\* Buffer.slice(from, to) on 1-based inclusive positions
Slice(buf, from, to) == [i \in 1..(IF to >= from THEN to - from + 1 ELSE 0) |-> buf[from + i - 1]]

\* String.prototype.trim: drops the leading and trailing white space (LF)
Trim(raw) ==
  LET keep == {i \in 1..Len(raw) : raw[i] # LF}
  IN IF keep = {} THEN <<>>
     ELSE LET lo == CHOOSE i \in keep : \A j \in keep : i <= j
              hi == CHOOSE i \in keep : \A j \in keep : i >= j
          IN Slice(raw, lo, hi)

\* JSON.parse succeeds exactly on one complete JSON text
JsonParses(text) == Len(text) = 1 /\ text[1] \in Messages

\* ------------------------------------------------------------- timers
Cleared == [armed |-> FALSE, left |-> 0]
Armed(ms) == [armed |-> TRUE, left |-> ms]
Expired(t) == t.armed /\ t.left = 0
TickTimer(t) == IF t.armed THEN [t EXCEPT !.left = @ - 1] ELSE t

\* ------------------------------------------------------------- session
NoOutcome == [ok |-> FALSE, error |-> "", rsp |-> ""]
NoSession ==
  [sock |-> "none", finished |-> FALSE,
   connectGuard |-> Cleared, overallTimer |-> Cleared, idleTimer |-> Cleared,
   connectMs |-> 0, readMs |-> 0, idleMs |-> 0,
   buffer |-> <<>>, log |-> <<>>, out |-> NoOutcome, resolves |-> 0,
   writes |-> 0, connected |-> FALSE, age |-> 0, quiet |-> 0, chunks |-> 0]

\* ev(type, msg): log.push
ev(s, type, msg) == [s EXCEPT !.log = Append(@, [type |-> type, msg |-> msg])]

armOverall(s) == [s EXCEPT !.overallTimer = Armed(s.readMs)]
armIdle(s) == [s EXCEPT !.idleTimer = Armed(s.idleMs)]
clearTimers(s) == [s EXCEPT !.overallTimer = Cleared, !.idleTimer = Cleared]

\* done(error, rsp): error = "" stands for a falsy error argument
done_keepSocket(s, error, rsp) ==
  IF s.finished THEN s
  ELSE [clearTimers(s) EXCEPT
          !.finished = TRUE,
          !.resolves = @ + 1,
          !.out = IF error # "" THEN [ok |-> FALSE, error |-> error, rsp |-> ""]
                  ELSE [ok |-> TRUE, error |-> "", rsp |-> rsp]]
\* done without the finished flag: every call resolves
done_everyCall(s, error, rsp) ==
  [clearTimers(s) EXCEPT
     !.finished = TRUE,
     !.sock = "destroyed",
     !.resolves = @ + 1,
     !.out = IF error # "" THEN [ok |-> FALSE, error |-> error, rsp |-> ""]
             ELSE [ok |-> TRUE, error |-> "", rsp |-> rsp]]
done(s, error, rsp) ==
  IF s.finished THEN s
  ELSE [clearTimers(s) EXCEPT
          !.finished = TRUE,
          !.sock = "destroyed",
          !.resolves = @ + 1,
          !.out = IF error # "" THEN [ok |-> FALSE, error |-> error, rsp |-> ""]
                  ELSE [ok |-> TRUE, error |-> "", rsp |-> rsp]]

\* processFrames: decodes at most one frame of the buffer per call
processFrames(s0) ==
  LET buffer == s0.buffer
      st == IndexOf(buffer, STX, 1)
      en == IndexOf(buffer, ETX, st + 1)
  IN IF st # 0 /\ en # 0
     THEN LET raw == Slice(buffer, st + 1, en - 1)
              s1 == [s0 EXCEPT !.buffer = Slice(buffer, en + 1, Len(buffer))]
              text == Trim(raw)
          IN IF text = <<>> THEN s1
             ELSE LET s2 == ev(s1, "recv-json", text) IN
                  IF ~JsonParses(text) THEN ev(s2, "warn", <<"Non-JSON">>)
                  ELSE LET message == text[1] IN
                       IF message = AckMessage
                       THEN ev(s2, "event", <<"ACK from terminal">>)
                       ELSE IF message \in ProgressMessages
                       THEN ev(s2, "event", <<"progress", message>>)
                       ELSE IF message \in FinalMessages
                       THEN done(s2, "", message)
                       ELSE ev(s2, "event", <<"Unhandled", message>>)
     ELSE s0

\* sock.on('data')
onData_write(s, chunk) ==
  LET s1 == processFrames(armIdle([ev(s, "recv-bytes", <<>>) EXCEPT
                              !.buffer = @ \o chunk, !.chunks = @ + 1, !.quiet = 0]))
  IN IF s1.finished THEN [s1 EXCEPT !.writes = @ + 1] ELSE s1
onData_rearmOverall(s, chunk) ==
  processFrames(armOverall(armIdle([ev(s, "recv-bytes", <<>>) EXCEPT
                              !.buffer = @ \o chunk, !.chunks = @ + 1, !.quiet = 0])))
onData(s, chunk) ==
  processFrames(armIdle([ev(s, "recv-bytes", <<>>) EXCEPT
                              !.buffer = @ \o chunk, !.chunks = @ + 1, !.quiet = 0]))

\* sock.on('error')
onError(s, message) == done(ev(s, "error", <<message>>), message, "")

\* the connect callback of sock.connect
onConnect_noIdle(s) ==
  armOverall(ev(ev(ev([s EXCEPT !.connectGuard = Cleared, !.sock = "open",
                                     !.writes = @ + 1, !.connected = TRUE],
                              "event", <<"TCP CONNECT">>),
                           "send-json", <<"MSG">>),
                        "send-bytes", frameJson("MSG")))
onConnect_noTimers(s) ==
  ev(ev(ev([s EXCEPT !.connectGuard = Cleared, !.sock = "open",
                     !.writes = @ + 1, !.connected = TRUE],
           "event", <<"TCP CONNECT">>),
        "send-json", <<"MSG">>),
     "send-bytes", frameJson("MSG"))
onConnect(s) ==
  armIdle(armOverall(ev(ev(ev([s EXCEPT !.connectGuard = Cleared, !.sock = "open",
                                     !.writes = @ + 1, !.connected = TRUE],
                              "event", <<"TCP CONNECT">>),
                           "send-json", <<"MSG">>),
                        "send-bytes", frameJson("MSG"))))

\* sendCommandTcp up to its first await point: socket created, handlers
\* registered, connect guard armed, connect started
sendCommandTcp(connectMs, readMs, idleMs) ==
  [NoSession EXCEPT !.sock = "connecting", !.connectGuard = Armed(connectMs),
                    !.connectMs = connectMs, !.readMs = readMs, !.idleMs = idleMs]

\* ------------------------------------------------------------ gateway
Endpoints == {"/sale", "/preauth", "/auth-completion", "/void", "/refund",
              "/tip-adjust", "/batch-close", "/command"}

\* What a request body carries: nested = the <command>.transaction wrapper
\* object, required = the fields the command needs, data = body.data,
\* command = body.command.
NoBody == [nested |-> FALSE, required |-> FALSE, data |-> FALSE, command |-> FALSE]
Bodies(ep) ==
  CASE ep \in {"/sale", "/void"} ->
         {[NoBody EXCEPT !.nested = n, !.required = q] : n \in BOOLEAN, q \in BOOLEAN}
    [] ep = "/batch-close" -> {[NoBody EXCEPT !.data = d] : d \in BOOLEAN}
    [] ep = "/command" -> {[NoBody EXCEPT !.command = c] : c \in BOOLEAN}
    [] ep \in {"/refund", "/tip-adjust"} -> {[NoBody EXCEPT !.required = q] : q \in BOOLEAN}
    [] OTHER -> {NoBody}

\* The synchronous part of each route handler, up to its await or its
\* response: "await" = sendCommandTcp was called, "400"/"500" = the handler
\* answered, "throw" = the async handler threw outside any try block.
postSale(body) ==
  IF ~body.nested THEN "500"
  ELSE IF ~body.required THEN "400"
  ELSE "await"
postPreauth(body) == "await"
postAuthCompletion(body) == "await"
postVoid(body) == IF ~body.nested THEN "throw" ELSE "await"
postRefund(body) == "await"
postTipAdjust(body) == "await"
postBatchClose(body) == IF ~body.data THEN "throw" ELSE "await"
postCommand(body) == IF ~body.command THEN "400" ELSE "await"

Handler(ep, body) ==
  CASE ep = "/sale" -> postSale(body)
    [] ep = "/preauth" -> postPreauth(body)
    [] ep = "/auth-completion" -> postAuthCompletion(body)
    [] ep = "/void" -> postVoid(body)
    [] ep = "/refund" -> postRefund(body)
    [] ep = "/tip-adjust" -> postTipAdjust(body)
    [] ep = "/batch-close" -> postBatchClose(body)
    [] ep = "/command" -> postCommand(body)

NoResponse == [status |-> 0, success |-> "absent", hasOut |-> FALSE, out |-> NoOutcome, log |-> <<>>]
NoRequest ==
  [phase |-> "none", ep |-> "", body |-> NoBody, rsp |-> NoResponse,
   responses |-> 0, opened |-> 0]

\* res.status(code).json({success: false, message})
Rejected(h, code) ==
  [h EXCEPT !.phase = "responded", !.responses = @ + 1,
            !.rsp = [NoResponse EXCEPT !.status = code, !.success = "false"]]

\* the continuation of a handler after `await sendCommandTcp`:
\* res.json({requestId, ...out}), with success: true on /sale only
resume_retry(h, s, cfg) ==
  IF ~s.out.ok /\ h.opened < 2
  THEN [http |-> [h EXCEPT !.opened = @ + 1],
        sess |-> [sendCommandTcp(cfg.connectTimeoutMs, cfg.readTimeoutMs, cfg.idleByteTimeoutMs)
                    EXCEPT !.writes = s.writes]]
  ELSE [http |-> [h EXCEPT !.phase = "responded", !.responses = @ + 1,
                   !.rsp = [status |-> 200,
                            success |-> IF h.ep = "/sale" THEN "true" ELSE "absent",
                            hasOut |-> TRUE, out |-> s.out, log |-> s.log]],
        sess |-> s]
resume(h, s, cfg) ==
  [http |-> [h EXCEPT !.phase = "responded", !.responses = @ + 1,
                   !.rsp = [status |-> 200,
                            success |-> IF h.ep = "/sale" THEN "true" ELSE "absent",
                            hasOut |-> TRUE, out |-> s.out, log |-> s.log]],
   sess |-> s]

\* ------------------------------------------------- emulator: the store
\* mock.terminal/server.v1.js.  Identifiers are kept as the numbers they are
\* printed from: tranNo n is the text of n padded to four digits, a
\* referenceNumber or responseId n is 200000000000 + n, transaction id n
\* is "TXN" and n padded to eight digits, batch id n is "B" and n padded to
\* four digits and batch id 0 is null.  Amounts are whole dollars.
MaxIds == 2
MaxBatchNo == 2

\* Math.floor(Math.random() * 1000), cut down to two outcomes
Rands == {0, 1}

ECR_ID == "13"

\* the data loadData returns when it has read no data file
NewData ==
  [transactions |-> <<>>,
   batches |-> <<>>,
   counters |-> [nextTranNo |-> 1, nextBatchNo |-> 1, nextRefNo |-> 0],
   currentBatch |-> [id |-> 0, isOpen |-> TRUE]]

\* DATA_FILE: whether it exists, the data whose JSON text was last written
\* to it, and how much of that text is in it: "all", or, where the write
\* did not end, "part" (a proper prefix) or "empty" (the file truncated);
\* writes is the data of every write of the last command that wrote
NoFile == [exists |-> FALSE, written |-> "empty", data |-> NewData, writes |-> {}]

\* The store with its data file.  Without a data file at startup:
NewStore ==
  [transactions |-> NewData.transactions,
   batches |-> NewData.batches,
   counters |-> NewData.counters,
   currentBatch |-> NewData.currentBatch,
   file |-> NoFile]

\* store.data
Data(st) ==
  [transactions |-> st.transactions, batches |-> st.batches,
   counters |-> st.counters, currentBatch |-> st.currentBatch]

\* saveData: fs.writeFileSync(DATA_FILE, JSON.stringify(this.data)) that
\* runs to its end
saveData(st) ==
  [st EXCEPT !.file = [exists |-> TRUE, written |-> "all", data |-> Data(st),
                       writes |-> st.file.writes \cup {Data(st)}]]

\* new TransactionStore(): a file that exists and parses is the data (it
\* has counters and a currentBatch, so initializeCounters adds nothing);
\* JSON.parse throws on the empty text and on a proper prefix of the text
\* of an object, and the defaults are taken
loadData(file) ==
  LET data == IF file.exists /\ file.written = "all" THEN file.data ELSE NewData
  IN [transactions |-> data.transactions, batches |-> data.batches,
      counters |-> data.counters, currentBatch |-> data.currentBatch, file |-> file]

openNewBatch(st) ==
  [st EXCEPT !.currentBatch = [id |-> st.counters.nextBatchNo, isOpen |-> TRUE],
             !.counters.nextBatchNo = @ + 1]

\* the record gets its id and the open batch's id, is pushed and the data
\* is saved
addTransaction(st, txn) ==
  saveData([st EXCEPT !.transactions =
              Append(@, [txn EXCEPT !.id = Len(st.transactions) + 1,
                                    !.batchId = st.currentBatch.id])])

\* Array.prototype.find: the first index that satisfies P, 0 if none
First(n, P(_)) ==
  LET hits == {i \in 1..n : P(i)}
  IN IF hits = {} THEN 0 ELSE CHOOSE i \in hits : \A j \in hits : i <= j

\* updateTransaction(id, {status}): ids, tranNos and referenceNumbers are
\* texts of different shapes, so only t.id === id can match
updateTransaction(st, id, status) ==
  LET i == First(Len(st.transactions), LAMBDA j : st.transactions[j].id = id)
  IN IF i = 0 THEN st ELSE saveData([st EXCEPT !.transactions[i].status = status])

\* What a request names a transaction by: the text of a tranNo in its
\* tranNo field; the text of a referenceNumber, or a JSON number
\* 200000000000 + n, in its referenceNumber field.
None == [kind |-> "none", n |-> 0]
TranNos == {[kind |-> "tranNo", n |-> n] : n \in 0..MaxIds}
References == {[kind |-> k, n |-> n] : k \in {"referenceNumber", "number"}, n \in 0..MaxIds}

\* findTransaction: t.id === x || t.tranNo === String(x) ||
\* t.referenceNumber === String(x) || t.responseId === x; the index of the
\* first match, 0 for undefined
findTransaction(st, x) ==
  First(Len(st.transactions),
        LAMBDA i :
          LET t == st.transactions[i]
          IN \/ x.kind = "id" /\ t.id = x.n
             \/ x.kind = "tranNo" /\ t.tranNo = x.n
             \/ x.kind \in {"referenceNumber", "number"} /\ t.referenceNumber = x.n
             \/ x.kind = "number" /\ t.responseId = x.n)

\* the indices of the APPROVED and TIP_ADJUSTED transactions of the open batch
getUnsettledTransactions_approvedOnly(st) ==
  {i \in 1..Len(st.transactions) :
     /\ st.transactions[i].status = "APPROVED"
     /\ st.transactions[i].batchId = st.currentBatch.id}
getUnsettledTransactions(st) ==
  {i \in 1..Len(st.transactions) :
     /\ st.transactions[i].status \in {"APPROVED", "TIP_ADJUSTED"}
     /\ st.transactions[i].batchId = st.currentBatch.id}

\* unsettled.reduce((sum, txn) => sum + parseFloat(txn.amounts.totalAmount || 0), 0)
\* over the transactions at the indices S
RECURSIVE reduce(_, _)
reduce(txns, S) ==
  IF S = {} THEN 0
  ELSE LET i == CHOOSE j \in S : TRUE
       IN txns[i].totalAmount + reduce(txns, S \ {i})

\* unsettled.forEach(txn => this.updateTransaction(txn.id, {status: SETTLED})):
\* the unsettled transactions are settled in the order of the array, and
\* each update saves the data
RECURSIVE settleAll(_, _)
settleAll(st, unsettled) ==
  IF unsettled = {} THEN st
  ELSE LET i == CHOOSE j \in unsettled : \A k \in unsettled : j <= k
       IN settleAll(updateTransaction(st, st.transactions[i].id, "SETTLED"), unsettled \ {i})

\* closeBatch where the copy of the open batch keeps its isOpen
closeBatch_copyOpen(st) ==
  LET unsettled == getUnsettledTransactions(st)
      closedBatch == [id |-> st.currentBatch.id, isOpen |-> st.currentBatch.isOpen,
                      settlementCount |-> Cardinality(unsettled),
                      totalAmount |-> reduce(st.transactions, unsettled)]
  IN saveData(openNewBatch([settleAll(st, unsettled) EXCEPT !.batches = Append(@, closedBatch)]))
\* closeBatch that opens no new batch
closeBatch_keepOpen(st) ==
  LET unsettled == getUnsettledTransactions(st)
      closedBatch == [id |-> st.currentBatch.id, isOpen |-> FALSE,
                      settlementCount |-> Cardinality(unsettled),
                      totalAmount |-> reduce(st.transactions, unsettled)]
  IN saveData([settleAll(st, unsettled) EXCEPT !.batches = Append(@, closedBatch)])
\* closeBatch that totals every transaction of the batch
closeBatch_allOfBatch(st) ==
  LET unsettled == getUnsettledTransactions(st)
      ofBatch == {i \in 1..Len(st.transactions) : st.transactions[i].batchId = st.currentBatch.id}
      closedBatch == [id |-> st.currentBatch.id, isOpen |-> FALSE,
                      settlementCount |-> Cardinality(unsettled),
                      totalAmount |-> reduce(st.transactions, ofBatch)]
  IN saveData(openNewBatch([settleAll(st, unsettled) EXCEPT !.batches = Append(@, closedBatch)]))
\* closeBatch: the unsettled transactions are settled, a copy of the open
\* batch with isOpen false, their count and their total is pushed, a new
\* batch is opened and the data is saved
closeBatch(st) ==
  LET unsettled == getUnsettledTransactions(st)
      closedBatch == [id |-> st.currentBatch.id, isOpen |-> FALSE,
                      settlementCount |-> Cardinality(unsettled),
                      totalAmount |-> reduce(st.transactions, unsettled)]
  IN saveData(openNewBatch([settleAll(st, unsettled) EXCEPT !.batches = Append(@, closedBatch)]))

\* generateIds: the counters advance; responseId is read from nextRefNo
\* after its increment, plus the random offset
generateIds(st, rnd) ==
  [st |-> [st EXCEPT !.counters.nextTranNo = @ + 1, !.counters.nextRefNo = @ + 1],
   ids |-> [tranNo |-> st.counters.nextTranNo,
            referenceNumber |-> st.counters.nextRefNo,
            responseId |-> st.counters.nextRefNo + 1 + rnd]]

\* A transaction record before addTransaction; originalTransaction 0 is
\* undefined.  authorizedAmount, partialApproval and declineReason are
\* written by handleSale only: 0 and "absent" where a record has none.
\* totalAmount is amounts.totalAmount, which is amounts.baseAmount as no
\* request here carries a tip, tax or cashback; amounts.tipAmount is 0.00.
\* dotted holds the two properties of the record itself that are named
\* 'amounts.tipAmount' and 'amounts.totalAmount'.
Txn(ids, type, status, total, original) ==
  [id |-> 0, batchId |-> 0, tranNo |-> ids.tranNo, referenceNumber |-> ids.referenceNumber,
   responseId |-> ids.responseId, type |-> type, status |-> status,
   totalAmount |-> total, originalTransaction |-> original,
   authorizedAmount |-> 0, partialApproval |-> 0, declineReason |-> "absent",
   dotted |-> [tipAmount |-> "absent", totalAmount |-> "absent"]]

\* ---------------------------------------------- emulator: the replies
\* A frame the emulator writes, as the fields of its JSON object that the
\* reply protocol is about: message, the four fields of its data object and
\* a response label next to data.  "absent" is a field that is not there.
\* payload is what the data object of a success final carries besides:
\* host.responseCode, host.authorizedAmount and balanceDue, where present.
Absent == "absent"
NoPayload == [responseCode |-> Absent]
NoCmdResult == [result |-> Absent, errorCode |-> Absent]
NoData == [requestId |-> Absent, EcrId |-> Absent, response |-> Absent, cmdResult |-> NoCmdResult]

resultSuccess == [result |-> "Success", errorCode |-> Absent]
resultFailed(code) == [result |-> "Failed", errorCode |-> code]

\* frame({message: "ACK", data: ""})
AckFrame == [message |-> "ACK", data |-> NoData, response |-> Absent, payload |-> NoPayload]

\* sendMsg(sock, data, response, cmdResult): the label and the result are
\* merged into the data object
sendMsg(data, response, cmdResult) ==
  [message |-> "MSG",
   data |-> [requestId |-> data.requestId,
             EcrId |-> IF data.EcrId = Absent THEN ECR_ID ELSE data.EcrId,
             response |-> response, cmdResult |-> cmdResult],
   response |-> Absent, payload |-> NoPayload]

\* frame({message: "MSG", data: response.data, response: label}): only the
\* inner data of the handler's response object is sent, the label beside it
sendData(req, label) ==
  [message |-> "MSG", data |-> NoData, response |-> label, payload |-> NoPayload]

\* {requestId: String(req.data?.requestId || ''), EcrId: String(req.data?.EcrId || ECR_ID)}
Echo(req) ==
  [requestId |-> req.requestId,
   EcrId |-> IF req.EcrId = "" THEN ECR_ID ELSE req.EcrId]

\* What a handler did after its ACK: the store it left, and its final
\* frame with the way it is sent: "timer" = by a setTimeout callback,
\* "sync" = written before the handler returns, "throw" = none, the async
\* handler threw and its promise is rejected.
Later(st, frame) == [st |-> st, mode |-> "timer", final |-> frame]
Thrown(st) == [st |-> st, mode |-> "throw", final |-> AckFrame]

Failed(st, req, label, code) == Later(st, sendMsg(Echo(req), label, resultFailed(code)))

\* --------------------------------------------- emulator: the handlers
\* a || b on identifiers
Or(a, b) == IF a # None THEN a ELSE b

\* the rules without the partial approval
SaleRules_noPartial(total, pan) ==
  IF total >= 500
  THEN [status |-> "DECLINED", partial |-> FALSE, authorized |-> total,
        declineReason |-> "AMOUNT TOO HIGH"]
  ELSE IF pan = "0001"
  THEN [status |-> "DECLINED", partial |-> FALSE, authorized |-> total,
        declineReason |-> "CARD DECLINED"]
  ELSE [status |-> "APPROVED", partial |-> FALSE, authorized |-> total, declineReason |-> Absent]

\* The business rules of handleSale, an if / else-if chain: a total from
\* 155.00 to under 200.00 is a partial approval of 100.00; else 500.00 and
\* more is declined; else a PAN that ends in 0001 is declined.
SaleRules(total, pan) ==
  IF total >= 155 /\ total < 200
  THEN [status |-> "APPROVED", partial |-> TRUE, authorized |-> 100, declineReason |-> Absent]
  ELSE IF total >= 500
  THEN [status |-> "DECLINED", partial |-> FALSE, authorized |-> total,
        declineReason |-> "AMOUNT TOO HIGH"]
  ELSE IF pan = "0001"
  THEN [status |-> "DECLINED", partial |-> FALSE, authorized |-> total,
        declineReason |-> "CARD DECLINED"]
  ELSE [status |-> "APPROVED", partial |-> FALSE, authorized |-> total, declineReason |-> Absent]

\* handleSale after sendAck.  The total is the base amount, tip, tax and
\* cashback being none.  The catch branch is reached only when
\* params.cardPAN is not a string, which no request here carries.
handleSale(st, req, rnd) ==
  IF req.amount <= 0 THEN Failed(st, req, "Sale", "AMT001")
  ELSE LET total == req.amount
           rule == SaleRules(total, req.cardPAN)
           g == generateIds(st, rnd)
           transaction == [Txn(g.ids, "Sale", rule.status, total, 0) EXCEPT
                             !.authorizedAmount = rule.authorized,
                             !.partialApproval = IF rule.partial THEN 1 ELSE 0,
                             !.declineReason = rule.declineReason]
           st2 == addTransaction(g.st, transaction)
       IN IF rule.status = "DECLINED" THEN Failed(st2, req, "Sale", "DECLINE")
          ELSE Later(st2, [sendData(req, "Sale") EXCEPT !.payload =
                             IF rule.partial
                             THEN [responseCode |-> "10", authorizedAmount |-> rule.authorized,
                                   balanceDue |-> total - rule.authorized]
                             ELSE [responseCode |-> "00", authorizedAmount |-> rule.authorized]])

handlePreAuth(st, req, rnd) ==
  IF req.amount <= 0 THEN Failed(st, req, "PreAuth", "AMT001")
  ELSE LET g == generateIds(st, rnd)
       IN Later(addTransaction(g.st, Txn(g.ids, "PreAuth", "APPROVED", req.amount, 0)),
                sendData(req, "PreAuth"))

\* handleVoid where the ids are generated before the validation
handleVoid_idsFirst(st, req, rnd) ==
  LET i == findTransaction(st, Or(req.referenceNumber, req.tranNo))
      originalTxn == st.transactions[i]
      g == generateIds(st, rnd)
  IN IF i = 0 THEN Failed(st, req, "Void", "REF001")
     ELSE IF originalTxn.status = "VOIDED" THEN Failed(g.st, req, "Void", "VOID001")
     ELSE IF originalTxn.status = "SETTLED" THEN Failed(g.st, req, "Void", "VOID002")
     ELSE IF originalTxn.status \notin {"APPROVED", "TIP_ADJUSTED"}
          THEN Failed(g.st, req, "Void", "VOID003")
     ELSE Later(addTransaction(updateTransaction(g.st, originalTxn.id, "VOIDED"),
                               [Txn(g.ids, "Void", "APPROVED",
                                    originalTxn.totalAmount, originalTxn.id)
                                  EXCEPT !.authorizedAmount = originalTxn.authorizedAmount]),
                sendData(req, "Void"))
handleVoid_noRecord(st, req, rnd) ==
  LET i == findTransaction(st, Or(req.referenceNumber, req.tranNo))
      originalTxn == st.transactions[i]
  IN IF i = 0 THEN Failed(st, req, "Void", "REF001")
     ELSE IF originalTxn.status = "VOIDED" THEN Failed(st, req, "Void", "VOID001")
     ELSE IF originalTxn.status = "SETTLED" THEN Failed(st, req, "Void", "VOID002")
     ELSE IF originalTxn.status \notin {"APPROVED", "TIP_ADJUSTED"}
          THEN Failed(st, req, "Void", "VOID003")
     ELSE Later(generateIds(updateTransaction(st, originalTxn.id, "VOIDED"), rnd).st,
                sendData(req, "Void"))
\* handleVoid that acts on what it read before another Void's update: a
\* transaction that is VOIDED by now passes as the APPROVED one it was, and
\* the counters are written back as they were read
handleVoid_staleStatus(st, req, rnd) ==
  LET i == findTransaction(st, Or(req.referenceNumber, req.tranNo))
      originalTxn == st.transactions[i]
  IN IF i = 0 THEN Failed(st, req, "Void", "REF001")
     ELSE IF originalTxn.status = "SETTLED" THEN Failed(st, req, "Void", "VOID002")
     ELSE IF originalTxn.status \notin {"APPROVED", "TIP_ADJUSTED", "VOIDED"}
          THEN Failed(st, req, "Void", "VOID003")
     ELSE LET g == generateIds(updateTransaction(st, originalTxn.id, "VOIDED"), rnd)
          IN Later(addTransaction(IF originalTxn.status = "VOIDED" THEN st ELSE g.st,
                                  [Txn(g.ids, "Void", "APPROVED",
                                       originalTxn.totalAmount, originalTxn.id)
                                     EXCEPT !.authorizedAmount = originalTxn.authorizedAmount]),
                   sendData(req, "Void"))
\* the Void record takes a copy of the original's amounts
handleVoid(st, req, rnd) ==
  LET i == findTransaction(st, Or(req.referenceNumber, req.tranNo))
      originalTxn == st.transactions[i]
  IN IF i = 0 THEN Failed(st, req, "Void", "REF001")
     ELSE IF originalTxn.status = "VOIDED" THEN Failed(st, req, "Void", "VOID001")
     ELSE IF originalTxn.status = "SETTLED" THEN Failed(st, req, "Void", "VOID002")
     ELSE IF originalTxn.status \notin {"APPROVED", "TIP_ADJUSTED"}
          THEN Failed(st, req, "Void", "VOID003")
     ELSE LET g == generateIds(updateTransaction(st, originalTxn.id, "VOIDED"), rnd)
          IN Later(addTransaction(g.st, [Txn(g.ids, "Void", "APPROVED",
                                             originalTxn.totalAmount, originalTxn.id)
                                           EXCEPT !.authorizedAmount = originalTxn.authorizedAmount]),
                   sendData(req, "Void"))

handleBatchClose(st, req) == Later(closeBatch(st), sendData(req, "EOD"))

\* the status is updated; the ids are generated for the reply only
handleTipAdjust_any(st, req, rnd) ==
  LET i == findTransaction(st, Or(req.referenceNumber, req.tranNo))
      originalTxn == st.transactions[i]
  IN IF i = 0 THEN Failed(st, req, "TipAdjust", "TRAN009")
     ELSE Later(generateIds(updateTransaction(st, originalTxn.id, "TIP_ADJUSTED"), rnd).st,
                sendData(req, "TipAdjust"))
\* handleTipAdjust: the tip is the request's amount.  The update object is
\* {status, 'amounts.tipAmount': tip, 'amounts.totalAmount': newTotal}:
\* Object.assign copies its three keys onto the record, the last two as
\* properties with a dot in their names, and amounts is left as it was.
\* The reply carries newTotal and the tip.
handleTipAdjust(st, req, rnd) ==
  LET i == findTransaction(st, Or(req.referenceNumber, req.tranNo))
      originalTxn == st.transactions[i]
      tipAmount == req.amount
      newTotal == originalTxn.totalAmount + tipAmount
  IN IF i = 0 THEN Failed(st, req, "TipAdjust", "TRAN009")
     ELSE IF originalTxn.status \notin {"APPROVED", "TIP_ADJUSTED"}
          THEN Failed(st, req, "TipAdjust", "TIP001")
     ELSE Later(generateIds(updateTransaction(
                               [st EXCEPT !.transactions[i].dotted =
                                  [tipAmount |-> tipAmount, totalAmount |-> newTotal]],
                               originalTxn.id, "TIP_ADJUSTED"), rnd).st,
                [sendData(req, "TipAdjust") EXCEPT !.payload =
                   [responseCode |-> "00", authorizedAmount |-> newTotal,
                    totalAmount |-> newTotal, tipAmount |-> tipAmount]])

\* handleRefund without the comparison with the original's total
handleRefund_noLimit(st, req, rnd) ==
  LET i == findTransaction(st, req.referenceNumber)
      g == generateIds(st, rnd)
  IN IF req.amount <= 0 THEN Failed(st, req, "Refund", "AMT002")
     ELSE IF req.referenceNumber # None /\ i = 0 THEN Failed(st, req, "Refund", "REF002")
     ELSE Later(addTransaction(g.st,
                  Txn(g.ids, "Refund", "APPROVED", req.amount,
                      IF req.referenceNumber # None THEN st.transactions[i].id ELSE 0)),
                sendData(req, "Refund"))
\* a refund with a referenceNumber must find its original, of any type and
\* status, and not exceed its total
handleRefund(st, req, rnd) ==
  LET i == findTransaction(st, req.referenceNumber)
      g == generateIds(st, rnd)
  IN IF req.amount <= 0 THEN Failed(st, req, "Refund", "AMT002")
     ELSE IF req.referenceNumber # None /\ i = 0 THEN Failed(st, req, "Refund", "REF002")
     ELSE IF req.referenceNumber # None /\ req.amount > st.transactions[i].totalAmount
          THEN Failed(st, req, "Refund", "AMT003")
     ELSE Later(addTransaction(g.st,
                  Txn(g.ids, "Refund", "APPROVED", req.amount,
                      IF req.referenceNumber # None THEN st.transactions[i].id ELSE 0)),
                sendData(req, "Refund"))

handlePing(st, req) == Later(st, sendMsg(Echo(req), "Ping", resultSuccess))

handleStatusInquiry(st, req) ==
  LET identifier == Or(req.referenceNumber, req.tranNo)
  IN IF identifier = None THEN Failed(st, req, "StatusInquiry", "REQ001")
     ELSE IF findTransaction(st, identifier) = 0 THEN Failed(st, req, "StatusInquiry", "TXN001")
     ELSE Later(st, sendData(req, "StatusInquiry"))

\* handleBatchInquiry: getStatistics, currentBatch, getUnsettledTransactions
\* and batches.slice(-5) are read for the reply
handleBatchInquiry(st, req) == Later(st, sendData(req, "BatchInquiry"))

\* transactions.sort((a, b) => new Date(b.createdAt) - new Date(a.createdAt)):
\* Array.prototype.sort sorts the array it is called on, stably.  createdAt
\* is the millisecond of addTransaction, so it grows with the id: within
\* one millisecond (sameMs) the order stays, else the newest comes first.
sort(txns, sameMs) ==
  LET n == Len(txns)
      rank(i) == Cardinality({j \in 1..n : txns[j].id > txns[i].id}) + 1
  IN IF sameMs THEN txns
     ELSE [k \in 1..n |-> txns[CHOOSE i \in 1..n : rank(i) = k]]

\* handleTransactionList: `let transactions = store.data.transactions` is
\* the store's own array; each filter that is given replaces it by a copy
\* (Array.prototype.filter), and then it is sorted.  Without a filter the
\* store's array is the one that is sorted.
handleTransactionList(st, req, filtered, sameMs) ==
  Later(IF filtered THEN st ELSE [st EXCEPT !.transactions = sort(@, sameMs)],
        sendData(req, "TransactionList"))

\* resetType 'hard' clears the store and opens a batch; anything else
\* closes the open batch.  The reply is built with resetType.toUpperCase():
\* on a resetType that is not a string it throws after the store was changed.
handleSystemReset(st, req) ==
  LET st2 == IF req.resetType = "hard"
             THEN saveData(openNewBatch([NewStore EXCEPT !.file = st.file]))
             ELSE IF st.currentBatch.isOpen THEN closeBatch(st) ELSE st
  IN IF req.resetType = "number" THEN Thrown(st2)
     ELSE Later(st2, sendData(req, "SystemReset"))

\* route, for a frame that has a command.  file.writes is kept here: the
\* handler starts with none, and if it has written nothing the writes of
\* the command before stay on record.  BatchInquiry and TransactionList
\* are routed to their handlers by the action Inquiry; no request here names
\* them.
route(st, req, rnd) ==
  LET st0 == [st EXCEPT !.file.writes = {}]
      res ==
        CASE req.command = "Ping" -> handlePing(st0, req)
          [] req.command \in {"Sale", "CreditSale"} -> handleSale(st0, req, rnd)
          [] req.command \in {"PreAuth", "PreAuthorization"} -> handlePreAuth(st0, req, rnd)
          [] req.command \in {"TipAdjust", "TipAdjustment"} -> handleTipAdjust(st0, req, rnd)
          [] req.command \in {"Void", "VoidTransaction"} -> handleVoid(st0, req, rnd)
          [] req.command \in {"Refund", "CreditRefund"} -> handleRefund(st0, req, rnd)
          [] req.command \in {"EOD", "EODProcessing", "BatchClose", "Batch"} -> handleBatchClose(st0, req)
          [] req.command \in {"StatusInquiry", "TransactionStatus"} -> handleStatusInquiry(st0, req)
          [] req.command \in {"SystemReset", "Reset"} -> handleSystemReset(st0, req)
          [] OTHER -> Later(st0, sendMsg(Echo(req), req.command, resultFailed("CMD001")))
  IN IF res.st.file.writes = {} THEN [res EXCEPT !.st.file.writes = st.file.writes] ELSE res

\* ------------------------------------------------- framing of objects
\* frame(obj) of the emulator and frameJson(obj) of the gateway are the same
\* code.  An object here has a message, a command, a requestId and an
\* EcrId; the EcrId is spelled out as its characters.  A character of the
\* Basic Latin block is named like the byte it is encoded as (LF is
\* U+000A, ETX is U+0003); "U+0103" and "U+00E9" are not ASCII.  The JSON
\* text of an object is "{", its three words, the characters of the quoted
\* EcrId and "}".
ASCII == {"a", "\"", LF, ETX}
Characters == ASCII \cup {"U+0103", "U+00E9"}

\* a stringify that escapes nothing
quote_raw(ch) == <<ch>>
\* JSON.stringify of one character of a string: the quote and the control
\* characters are escaped ("u0003" is the five characters of the escape
\* after its backslash), every other character is itself
quote(ch) ==
  CASE ch = "\"" -> <<"\\", "\"">>
    [] ch = LF -> <<"\\", "n">>
    [] ch = ETX -> <<"\\", "u0003">>
    [] OTHER -> <<ch>>

RECURSIVE quoteAll(_)
quoteAll(str) == IF str = <<>> THEN <<>> ELSE quote(Head(str)) \o quoteAll(Tail(str))

stringify(obj) == <<"{", obj.message, obj.command, obj.requestId>> \o quoteAll(obj.EcrId) \o <<"}">>

\* Buffer.from(text, 'ascii'): the low eight bits of each code unit
asciiByte(ch) ==
  CASE ch = "U+0103" -> ETX
    [] ch = "U+00E9" -> "E9"
    [] OTHER -> ch

frame(obj) ==
  LET text == stringify(obj)
      j == [i \in 1..Len(text) |-> asciiByte(text[i])]
  IN <<STX, LF>> \o j \o <<LF, ETX, LF>>

\* buf.toString('ascii'): the low seven bits of each byte
asciiChar(b) == IF b = "E9" THEN "i" ELSE b

\* strip / stripFrame: toString('ascii'), the framing bytes and line ends
\* deleted everywhere, then trim (no blanks are modelled)
strip(raw) ==
  LET RECURSIVE keep(_)
      keep(t) == IF t = <<>> THEN <<>>
                 ELSE IF Head(t) \in {STX, ETX, LF} THEN keep(Tail(t))
                 ELSE <<asciiChar(Head(t))>> \o keep(Tail(t))
  IN keep(raw)

\* JSON.parse of the characters between the quotes of a string: an escape
\* gives its character, a bare quote or backslash does not parse
RECURSIVE unquoteAll(_)
unquoteAll(t) ==
  IF t = <<>> THEN [ok |-> TRUE, value |-> <<>>]
  ELSE IF Head(t) = "\\"
  THEN IF Len(t) >= 2 /\ t[2] \in {"\"", "n", "u0003"}
       THEN LET rest == unquoteAll(SubSeq(t, 3, Len(t)))
                ch == CASE t[2] = "n" -> LF [] t[2] = "u0003" -> ETX [] OTHER -> "\""
            IN [ok |-> rest.ok, value |-> <<ch>> \o rest.value]
       ELSE [ok |-> FALSE, value |-> <<>>]
  ELSE IF Head(t) \in {"\"", "{", "}", STX, LF, ETX}
  THEN [ok |-> FALSE, value |-> <<>>]
  ELSE LET rest == unquoteAll(Tail(t))
       IN [ok |-> rest.ok, value |-> <<Head(t)>> \o rest.value]

\* JSON.parse of a text: the object, or ok = FALSE where it throws
NoObject == [ok |-> FALSE, message |-> "", command |-> "", requestId |-> "", EcrId |-> <<>>]
parse(text) ==
  IF Len(text) >= 5 /\ text[1] = "{" /\ text[Len(text)] = "}"
     /\ \A i \in 2..4 : text[i] \notin {"{", "}", "\"", "\\"}
  THEN LET str == unquoteAll(SubSeq(text, 5, Len(text) - 1))
       IN IF str.ok
          THEN [ok |-> TRUE, message |-> text[2], command |-> text[3], requestId |-> text[4],
                EcrId |-> str.value]
          ELSE NoObject
  ELSE NoObject

\* FrameAccumulator.push of the gateway, which nothing there constructs:
\* the buffer it keeps and the texts it hands to onFrame
RECURSIVE push(_, _)
push(buf, frames) ==
  LET s == IndexOf(buf, STX, 1)
      e == IndexOf(buf, ETX, s + 1)
  IN IF s = 0 THEN [buf |-> <<>>, frames |-> frames]
     ELSE IF e = 0 THEN [buf |-> Slice(buf, s, Len(buf)), frames |-> frames]
     ELSE push(Slice(buf, e + 1, Len(buf)), Append(frames, strip(Slice(buf, s + 1, e - 1))))

\* ------------------------------------------ emulator: the connection
\* frames the emulator decodes on one connection
MaxCmds == 2

\* A decoded inbound frame: json = JSON.parse accepts its text; message
\* and, from its data object, command ("" = none), requestId, EcrId and the
\* fields of data.data the handlers read; of the PAN its last four digits,
\* those of the default 4761739001010010 where the request has none.
Request(command) ==
  [json |-> TRUE, message |-> "MSG", command |-> command, requestId |-> "rq", EcrId |-> "7",
   referenceNumber |-> None, tranNo |-> None, amount |-> 0, resetType |-> "soft",
   cardPAN |-> "0010"]

\* Amounts in dollars: none, one that is approved and, for a sale, one
\* that is declined.
Amounts == {0, 10, 500}

\* the commands that change the store, each with the fields it reads
StoreRequests ==
  {Request("EOD")}
  \cup {[Request("Sale") EXCEPT !.amount = a] : a \in Amounts}
  \cup {[Request("PreAuth") EXCEPT !.amount = a] : a \in Amounts \ {500}}
  \cup {[Request(c) EXCEPT !.referenceNumber = x] :
          c \in {"Void", "TipAdjust"}, x \in References \cup {None}}
  \cup {[Request(c) EXCEPT !.tranNo = x] : c \in {"Void", "TipAdjust"}, x \in TranNos}
  \cup {[Request("Refund") EXCEPT !.amount = 10, !.referenceNumber = x] :
          x \in References \cup {None}}
  \cup {[Request("Refund") EXCEPT !.amount = a, !.referenceNumber = x] :
          a \in Amounts \ {10}, x \in References}
  \cup {[Request("SystemReset") EXCEPT !.resetType = t] : t \in {"soft", "hard", "number"}}

\* The Sale commands by total and PAN: totals on both sides of 155.00,
\* 200.00 and 500.00, the default PAN and one that ends in 0001.
SaleAmounts == {0, 154, 155, 199, 200, 499, 500}
PANs == {"0010", "0001"}
SaleRequests ==
  {[Request("Sale") EXCEPT !.amount = a, !.cardPAN = pan] : a \in SaleAmounts, pan \in PANs}

\* text that is not JSON, an ACK, a frame without command, an unknown
\* command and the inquiries
OtherRequests ==
  {[Request("") EXCEPT !.json = FALSE], [Request("") EXCEPT !.message = "ACK"],
   Request(""), Request("Foo"), Request("Ping")}
  \cup {[Request("StatusInquiry") EXCEPT !.referenceNumber = x] : x \in References \cup {None}}

Requests == StoreRequests \cup OtherRequests

\* what the data handler logs of a frame
Logged(req) ==
  [json |-> req.json, message |-> req.message, command |-> req.command,
   requestId |-> req.requestId, EcrId |-> req.EcrId]

\* A connection as accepted: nothing decoded, nothing written, the
\* welcome timer armed.  wire is what was written to the socket, timers the
\* finals waiting in setTimeout; an entry names the frame it replies to by
\* its messageCount (0: the welcome message).
\* acc is the bytes received and not yet consumed; client is the other
\* end: the objects it has framed and written, every byte it has written
\* and those of them still on their way.
\* peer is a second connection accepted by the same server, with its own
\* messageCount, log, socket and timers.
NoClient == [sent |-> <<>>, written |-> <<>>, wire |-> <<>>]
SecondConnection == [messageCount |-> 0, log |-> <<>>, wire |-> <<>>, timers |-> {}]
NewConnection ==
  [up |-> TRUE, messageCount |-> 0, log |-> <<>>, wire |-> <<>>, timers |-> {},
   welcome |-> TRUE, acc |-> <<>>, client |-> NoClient, peer |-> SecondConnection]

WelcomeFrame ==
  [message |-> "MSG",
   data |-> [requestId |-> Absent, EcrId |-> ECR_ID, response |-> "SystemReady",
             cmdResult |-> resultSuccess],
   response |-> Absent, payload |-> NoPayload]

\* The reply to one decoded frame: text that does not parse gets an ACK
\* and an Error final at once; an ACK message or a frame without command
\* gets nothing; any other frame is routed.
Nothing(st) == [st |-> st, mode |-> "none", final |-> AckFrame]
reply(st, req, rnd) ==
  IF ~req.json
  THEN [st |-> st, mode |-> "sync",
        final |-> sendMsg([requestId |-> Absent, EcrId |-> ECR_ID], "Error", resultFailed("JSON001"))]
  ELSE IF req.message = "ACK" \/ req.command = "" THEN Nothing(st)
  ELSE route(st, req, rnd)

\* socket.on('data') for one frame of the chunk
onFrame(c, req, res) ==
  LET k == c.messageCount + 1
      ack == IF res.mode = "none" THEN <<>> ELSE <<[re |-> k, frame |-> AckFrame]>>
      now == IF res.mode = "sync" THEN <<[re |-> k, frame |-> res.final]>> ELSE <<>>
  IN [c EXCEPT !.messageCount = k,
               !.log = Append(@, Logged(req)),
               !.wire = @ \o ack \o now,
               !.timers = IF res.mode = "timer" THEN @ \cup {[re |-> k, frame |-> res.final]} ELSE @]

\* the decoded frame of a text: text that JSON.parse rejects, or the object
toRequest(text) ==
  LET obj == parse(text)
  IN IF ~obj.ok THEN [Request("") EXCEPT !.json = FALSE]
     ELSE [Request(obj.command) EXCEPT !.message = obj.message, !.requestId = obj.requestId,
                                       !.EcrId = obj.EcrId]

\* The while loop of socket.on('data') over acc: every STX ... ETX window
\* is stripped, counted, parsed and routed, and acc is cut behind it.  The
\* one random offset serves every frame of the chunk.
RECURSIVE drain(_, _, _)
drain(c, st, rnd) ==
  LET s == IndexOf(c.acc, STX, 1)
      e == IndexOf(c.acc, ETX, s + 1)
  IN IF s = 0 \/ e = 0 THEN [c |-> c, st |-> st]
     ELSE LET req == toRequest(strip(Slice(c.acc, s + 1, e - 1)))
              res == reply(st, req, rnd)
          IN drain([onFrame(c, req, res) EXCEPT !.acc = Slice(c.acc, e + 1, Len(c.acc))],
                   res.st, rnd)

\* -------------------------------------------------------------- state
VARIABLES
  CONFIG,   \* the process-wide timeouts
  http,     \* per request slot: the route handler and its HTTP response
  sess,     \* per request slot: the sendCommandTcp session
  term,     \* per request slot: the terminal's side of the connection
  store,    \* the emulator's TransactionStore
  emu       \* the emulator's side of its client connection

vars == <<CONFIG, http, sess, term, store, emu>>
gatewayVars == <<CONFIG, http, sess, term>>

NoPeer == [texts |-> {}, wire |-> <<>>, sent |-> 0]

\* The three timeouts in ticks.  DefaultConfig keeps the order of the
\* defaults (connect 5 s < idle 25 s < read 180 s); the others have the idle
\* window shorter than, equal to and longer than the overall one.
DefaultConfig == [connectTimeoutMs |-> 1, readTimeoutMs |-> 3, idleByteTimeoutMs |-> 2]
Configs ==
  {DefaultConfig,
   [connectTimeoutMs |-> 1, readTimeoutMs |-> 2, idleByteTimeoutMs |-> 1],
   [connectTimeoutMs |-> 1, readTimeoutMs |-> 2, idleByteTimeoutMs |-> 2],
   [connectTimeoutMs |-> 1, readTimeoutMs |-> 1, idleByteTimeoutMs |-> 2]}

\* The gateway is listening; one client, no request yet; the terminal is
\* the emulator.
Init ==
  /\ CONFIG = DefaultConfig
  /\ http = [r \in Reqs |-> IF r = 1 THEN [NoRequest EXCEPT !.phase = "idle"] ELSE NoRequest]
  /\ sess = [r \in Reqs |-> NoSession]
  /\ term = [r \in Reqs |-> [NoPeer EXCEPT !.texts = EmulatorTexts]]
  /\ store = NewStore
  /\ emu = NewConnection

\* ------------------------------------------------------------ actions
\* An HTTP request reaches a route handler, which runs to its first await.
HttpAwait(r, ep, body) ==
  /\ http[r].phase = "idle"
  /\ Handler(ep, body) = "await"
  /\ http' = [http EXCEPT ![r] = [@ EXCEPT !.phase = "awaiting", !.ep = ep,
                                           !.body = body, !.opened = @ + 1]]
  /\ sess' = [sess EXCEPT ![r] = sendCommandTcp(CONFIG.connectTimeoutMs,
                                   CONFIG.readTimeoutMs, CONFIG.idleByteTimeoutMs)]
  /\ UNCHANGED <<CONFIG, term, store, emu>>

HttpReject(r, ep, body) ==
  /\ http[r].phase = "idle"
  /\ Handler(ep, body) \in {"400", "500"}
  /\ http' = [http EXCEPT ![r] =
                Rejected([@ EXCEPT !.ep = ep, !.body = body],
                         IF Handler(ep, body) = "400" THEN 400 ELSE 500)]
  /\ UNCHANGED <<CONFIG, sess, term, store, emu>>

\* The async handler threw: its promise is rejected and nothing in the
\* handler answers.  A router that ignores the promise leaves the request
\* unanswered; one that watches it answers with its default error page.
HttpThrowUnanswered(r, ep, body) ==
  /\ http[r].phase = "idle"
  /\ Handler(ep, body) = "throw"
  /\ http' = [http EXCEPT ![r] = [@ EXCEPT !.phase = "rejected", !.ep = ep, !.body = body]]
  /\ UNCHANGED <<CONFIG, sess, term, store, emu>>

HttpThrowErrorPage(r, ep, body) ==
  /\ http[r].phase = "idle"
  /\ Handler(ep, body) = "throw"
  /\ http' = [http EXCEPT ![r] =
                [@ EXCEPT !.phase = "responded", !.ep = ep, !.body = body,
                          !.responses = @ + 1,
                          !.rsp = [NoResponse EXCEPT !.status = 500]]]
  /\ UNCHANGED <<CONFIG, sess, term, store, emu>>

\* The session's promise is resolved: the handler continues after its await.
HandlerResume(r) ==
  /\ http[r].phase = "awaiting"
  /\ sess[r].resolves > 0
  /\ LET res == resume(http[r], sess[r], CONFIG)
     IN /\ http' = [http EXCEPT ![r] = res.http]
        /\ sess' = [sess EXCEPT ![r] = res.sess]
  /\ UNCHANGED <<CONFIG, term, store, emu>>

\* The terminal accepts the connection: the connect callback runs.
Connect(r) ==
  /\ sess[r].sock = "connecting"
  /\ sess' = [sess EXCEPT ![r] = onConnect(@)]
  /\ UNCHANGED <<CONFIG, http, term, store, emu>>

\* The socket raises 'error' (refused, reset, ...).
SocketError(r, message) ==
  /\ sess[r].sock \in {"connecting", "open"}
  /\ sess' = [sess EXCEPT ![r] = onError(@, message)]
  /\ UNCHANGED <<CONFIG, http, term, store, emu>>

\* The terminal writes the frames of `texts`; the bytes still in flight
\* and those of the new frames arrive, up to a cut in the last of them, as
\* one chunk: a 'data' event.  The rest stays in flight.
Chunk(r, texts, cut) ==
  /\ sess[r].sock = "open"
  /\ term[r].sent + Len(texts) <= MaxFrames
  /\ \A i \in 1..Len(texts) : texts[i] \in term[r].texts
  /\ LET stream == term[r].wire \o Frames(texts)
         n == Len(stream) - (FrameLen - cut)
     IN /\ n \in 1..Len(stream)
        /\ sess' = [sess EXCEPT ![r] = onData(@, SubSeq(stream, 1, n))]
        /\ term' = [term EXCEPT ![r].wire = SubSeq(stream, n + 1, Len(stream)),
                                ![r].sent = @ + Len(texts)]
  /\ UNCHANGED <<CONFIG, http, store, emu>>

\* The terminal closes the connection once its bytes are delivered; no
\* 'end' or 'close' handler is registered, the session only loses its peer.
TermClose(r) ==
  /\ sess[r].sock = "open"
  /\ term[r].wire = <<>>
  /\ sess' = [sess EXCEPT ![r].sock = "ended"]
  /\ UNCHANGED <<CONFIG, http, term, store, emu>>

\* timer callbacks
FireConnectGuard(r) ==
  /\ Expired(sess[r].connectGuard)
  /\ sess' = [sess EXCEPT ![r] = done([@ EXCEPT !.connectGuard = Cleared], "connect-timeout", "")]
  /\ UNCHANGED <<CONFIG, http, term, store, emu>>

FireOverall(r) ==
  /\ Expired(sess[r].overallTimer)
  /\ sess' = [sess EXCEPT ![r] = done([@ EXCEPT !.overallTimer = Cleared], "read-timeout", "")]
  /\ UNCHANGED <<CONFIG, http, term, store, emu>>

\* Timers armed by the same connect callback with equal delays run in the
\* order they were armed (overall, then idle); once a chunk has re-armed the
\* idle timer, either of two expired timers may be the older one.
FireIdle(r) ==
  /\ Expired(sess[r].idleTimer)
  /\ ~(Expired(sess[r].overallTimer) /\ sess[r].chunks = 0)
  /\ sess' = [sess EXCEPT ![r] = done([@ EXCEPT !.idleTimer = Cleared], "idle-timeout", "")]
  /\ UNCHANGED <<CONFIG, http, term, store, emu>>

Timers(s) == {s.connectGuard, s.overallTimer, s.idleTimer}

\* One tick of the clock; an expired timer runs before the next tick.
Tick ==
  /\ \E r \in Reqs : \E t \in Timers(sess[r]) : t.armed
  /\ \A r \in Reqs : \A t \in Timers(sess[r]) : ~Expired(t)
  /\ sess' = [r \in Reqs |->
                [sess[r] EXCEPT
                   !.connectGuard = TickTimer(@),
                   !.overallTimer = TickTimer(@),
                   !.idleTimer = TickTimer(@),
                   !.age = IF sess[r].connected /\ ~sess[r].finished THEN @ + 1 ELSE @,
                   !.quiet = IF sess[r].connected /\ ~sess[r].finished THEN @ + 1 ELSE @]]
  /\ UNCHANGED <<CONFIG, http, term, store, emu>>

NextEngine ==
  \/ \E r \in Reqs : HandlerResume(r)
  \/ \E r \in Reqs : Connect(r)
  \/ \E r \in Reqs, m \in ErrMessages : SocketError(r, m)
  \/ \E r \in Reqs, texts \in Scripts, cut \in Cuts : Chunk(r, texts, cut)
  \/ \E r \in Reqs : TermClose(r)
  \/ \E r \in Reqs : FireConnectGuard(r)
  \/ \E r \in Reqs : FireOverall(r)
  \/ \E r \in Reqs : FireIdle(r)
  \/ Tick

Next ==
  \/ \E r \in Reqs, ep \in Endpoints : \E body \in Bodies(ep) : HttpAwait(r, ep, body)
  \/ \E r \in Reqs, ep \in Endpoints : \E body \in Bodies(ep) : HttpReject(r, ep, body)
  \/ \E r \in Reqs, ep \in Endpoints : \E body \in Bodies(ep) : HttpThrowUnanswered(r, ep, body)
  \/ \E r \in Reqs, ep \in Endpoints : \E body \in Bodies(ep) : HttpThrowErrorPage(r, ep, body)
  \/ NextEngine

\* The gateway and its sessions against the emulator's vocabulary.
Spec == Init /\ [][Next]_vars

\* One sendCommandTcp session, as started by a /command request, under
\* every timeout order and against every firmware.
InitEngine ==
  /\ CONFIG \in Configs
  /\ http = [r \in Reqs |->
               IF r = 1 THEN [NoRequest EXCEPT !.phase = "awaiting", !.ep = "/command",
                                               !.body = [NoBody EXCEPT !.command = TRUE],
                                               !.opened = 1]
               ELSE NoRequest]
  /\ sess = [r \in Reqs |->
               IF r = 1 THEN sendCommandTcp(CONFIG.connectTimeoutMs,
                                   CONFIG.readTimeoutMs, CONFIG.idleByteTimeoutMs)
               ELSE NoSession]
  /\ \E fw \in Firmwares : term = [r \in Reqs |-> [NoPeer EXCEPT !.texts = fw]]
  /\ store = NewStore
  /\ emu = NewConnection

SpecEngine == InitEngine /\ [][NextEngine]_vars

\* Timers fire and the clock advances.
Fairness ==
  /\ WF_vars(Tick)
  /\ \A r \in Reqs : WF_vars(FireConnectGuard(r))
  /\ \A r \in Reqs : WF_vars(FireOverall(r))
  /\ \A r \in Reqs : WF_vars(FireIdle(r))

FairEngine == SpecEngine /\ Fairness

\* Two HTTP clients at once, each posting a valid /sale or /refund to the
\* default terminal (CONFIG.terminalIp, CONFIG.primaryPort), which answers
\* whole frames.
InitConcurrent ==
  /\ CONFIG = DefaultConfig
  /\ http = [r \in Reqs |-> [NoRequest EXCEPT !.phase = "idle"]]
  /\ sess = [r \in Reqs |-> NoSession]
  /\ term = [r \in Reqs |-> [NoPeer EXCEPT !.texts = {"ACK", "MSG"}]]
  /\ store = NewStore
  /\ emu = NewConnection

NextConcurrent ==
  \/ \E r \in Reqs, ep \in {"/sale", "/refund"} :
        HttpAwait(r, ep, [NoBody EXCEPT !.nested = (ep = "/sale"), !.required = TRUE])
  \/ \E r \in Reqs : HandlerResume(r)
  \/ \E r \in Reqs : Connect(r)
  \/ \E r \in Reqs, m \in ErrMessages : SocketError(r, m)
  \/ \E r \in Reqs, text \in {"ACK", "MSG"} : Chunk(r, <<text>>, FrameLen)
  \/ \E r \in Reqs : TermClose(r)
  \/ \E r \in Reqs : FireConnectGuard(r)
  \/ \E r \in Reqs : FireOverall(r)
  \/ \E r \in Reqs : FireIdle(r)
  \/ Tick

SpecConcurrent == InitConcurrent /\ [][NextConcurrent]_vars

\* --------------------------------------------------- emulator actions
\* the counters stay within the bounds
Within(st) == st.counters.nextRefNo <= MaxIds /\ st.counters.nextBatchNo <= MaxBatchNo

\* A frame is decoded on the connection: the data handler and the
\* synchronous part of the command handler run to completion.
OnData(req, rnd) ==
  /\ emu.up /\ emu.messageCount < MaxCmds
  /\ LET res == reply(store, req, rnd)
     IN /\ Within(res.st)
        /\ store' = res.st
        /\ emu' = onFrame(emu, req, res)
  /\ UNCHANGED gatewayVars

\* The same, where the handler's promise was rejected and the run-time
\* ends the process on an unhandled rejection: pending timers die with it.
OnDataExit(req, rnd) ==
  /\ emu.up /\ emu.messageCount < MaxCmds
  /\ LET res == reply(store, req, rnd)
     IN /\ Within(res.st)
        /\ res.mode = "throw"
        /\ store' = res.st
        /\ emu' = [onFrame(emu, req, res) EXCEPT !.up = FALSE, !.timers = {}, !.welcome = FALSE]
  /\ UNCHANGED gatewayVars

\* a setTimeout callback writes the final of frame k
Timeout(k) ==
  /\ emu.up
  /\ \E t \in emu.timers :
       /\ t.re = k
       /\ emu' = [emu EXCEPT !.wire = Append(@, t), !.timers = @ \ {t}]
  /\ UNCHANGED <<gatewayVars, store>>

\* the welcome timer of the connection
Welcome ==
  /\ emu.up /\ emu.welcome
  /\ emu' = [emu EXCEPT !.welcome = FALSE, !.wire = Append(@, [re |-> 0, frame |-> WelcomeFrame])]
  /\ UNCHANGED <<gatewayVars, store>>

\* The client has its answer, or has given up on one that cannot come:
\* it closes the connection and a new one is accepted.
Reconnect ==
  /\ emu.up /\ emu.messageCount > 0 /\ emu.timers = {}
  /\ emu' = NewConnection
  /\ UNCHANGED <<gatewayVars, store>>

\* one command per connection, as the gateway's sessions do
Command(req, rnd) == emu.messageCount = 0 /\ OnData(req, rnd)
CommandExit(req, rnd) == emu.messageCount = 0 /\ OnDataExit(req, rnd)

InitEmulator ==
  /\ CONFIG = DefaultConfig
  /\ http = [r \in Reqs |-> NoRequest]
  /\ sess = [r \in Reqs |-> NoSession]
  /\ term = [r \in Reqs |-> NoPeer]
  /\ store = NewStore
  /\ emu = NewConnection

\* one connection, its frames in any timing
NextEmulator ==
  \/ \E req \in Requests, rnd \in Rands : OnData(req, rnd)
  \/ \E req \in Requests, rnd \in Rands : OnDataExit(req, rnd)
  \/ \E k \in 1..MaxCmds : Timeout(k)
  \/ Welcome

SpecEmulator == InitEmulator /\ [][NextEmulator]_vars

\* any number of connections, one command on each
NextStore ==
  \/ \E req \in StoreRequests, rnd \in Rands : Command(req, rnd)
  \/ \E req \in StoreRequests, rnd \in Rands : CommandExit(req, rnd)
  \/ \E k \in 1..MaxCmds : Timeout(k)
  \/ Reconnect

SpecStore == InitEmulator /\ [][NextStore]_vars

\* sales only, one on each connection
NextSales ==
  \/ \E req \in SaleRequests, rnd \in Rands : Command(req, rnd)
  \/ \E k \in 1..MaxCmds : Timeout(k)
  \/ Reconnect

SpecSales == InitEmulator /\ [][NextSales]_vars

\* The process is killed (a signal that is not handled, the machine going
\* down) while writeFileSync is writing: the file is left truncated or with
\* a part of the new text.  Memory, connections and timers are gone.
Killed == [NewConnection EXCEPT !.up = FALSE, !.welcome = FALSE]
WriteCuts == {"empty", "part"}

\* the setInterval callback: saveData every 30 seconds
Save ==
  /\ emu.up
  /\ store' = saveData(store)
  /\ UNCHANGED <<gatewayVars, emu>>

\* the same save, not ended
SaveKilled(w) ==
  /\ emu.up
  /\ store' = [saveData(store) EXCEPT !.file.written = w]
  /\ emu' = Killed
  /\ UNCHANGED gatewayVars

\* the last save of a command handler, not ended
CommandKilled(req, rnd, w) ==
  /\ emu.up /\ emu.messageCount = 0
  /\ LET res == reply(store, req, rnd)
     IN /\ Within(res.st)
        /\ res.st.file # store.file
        /\ store' = [res.st EXCEPT !.file.written = w]
        /\ emu' = Killed
  /\ UNCHANGED gatewayVars

\* the emulator is started again and loads the data file
Restart ==
  /\ ~emu.up
  /\ store' = loadData(store.file)
  /\ emu' = NewConnection
  /\ UNCHANGED gatewayVars

\* the store and its file, with saves that do not end
NextSave ==
  \/ \E req \in StoreRequests, rnd \in Rands : Command(req, rnd)
  \/ \E k \in 1..MaxCmds : Timeout(k)
  \/ Reconnect
  \/ Save
  \/ \E w \in WriteCuts : SaveKilled(w)
  \/ \E req \in StoreRequests, rnd \in Rands, w \in WriteCuts : CommandKilled(req, rnd, w)
  \/ Restart

SpecSave == InitEmulator /\ [][NextSave]_vars

\* The objects a client frames: a Ping with each EcrId, none of them empty.
EcrIds == {<<"\"", "a">>, <<LF>>, <<"a", ETX>>, <<"U+0103">>, <<"U+00E9">>}
Envelopes ==
  {[message |-> "MSG", command |-> "Ping", requestId |-> "rq", EcrId |-> x] : x \in EcrIds}

\* bytes without STX ahead of the first frame, and between two frames
Garbage == {<<>>, <<ETX, "a">>, <<LF, "}", ETX>>}
Fillers == {<<>>, <<LF, LF>>}

\* the client frames an object and writes it, behind line ends or not
ClientSend(obj, fill) ==
  /\ emu.up /\ Len(emu.client.sent) < MaxCmds
  /\ emu' = [emu EXCEPT !.client.sent = Append(@, obj),
                        !.client.written = @ \o fill \o frame(obj),
                        !.client.wire = @ \o fill \o frame(obj)]
  /\ UNCHANGED <<gatewayVars, store>>

\* how a write of the client is cut into chunks: the next byte, the next
\* five bytes or all there is
ChunkSizes == {1, 5, 0}

\* socket.on('data'): a chunk of the bytes on their way arrives
OnBytes(n, rnd) ==
  /\ emu.up /\ emu.client.wire # <<>>
  /\ n <= Len(emu.client.wire)
  /\ LET k == IF n = 0 THEN Len(emu.client.wire) ELSE n
         chunk == SubSeq(emu.client.wire, 1, k)
         got == drain([emu EXCEPT !.acc = @ \o chunk,
                                  !.client.wire = SubSeq(@, k + 1, Len(@))], store, rnd)
     IN /\ got.c.messageCount <= MaxCmds
        /\ emu' = got.c
        /\ store' = got.st
  /\ UNCHANGED gatewayVars

InitFraming ==
  /\ CONFIG = DefaultConfig
  /\ http = [r \in Reqs |-> NoRequest]
  /\ sess = [r \in Reqs |-> NoSession]
  /\ term = [r \in Reqs |-> NoPeer]
  /\ store = NewStore
  /\ \E g \in Garbage :
       emu = [NewConnection EXCEPT !.client.written = g, !.client.wire = g]

\* one connection, the bytes of its client in any chunks; the timers of
\* the replies, which touch neither acc nor the log, are left to wait
NextFraming ==
  \/ \E obj \in Envelopes, fill \in Fillers : ClientSend(obj, fill)
  \/ \E n \in ChunkSizes, rnd \in Rands : OnBytes(n, rnd)

SpecFraming == InitFraming /\ [][NextFraming]_vars

\* Two connections at once.  A handler has no await: its validation and
\* its store calls run in the turn of the data event that decoded the
\* frame; only the final is left to a timer.  The commands are a Sale, the
\* Void of the first transaction by its referenceNumber, and a batch close.
FirstReference == [kind |-> "referenceNumber", n |-> 0]
SharedRequests ==
  {[Request("Sale") EXCEPT !.amount = 10],
   [Request("Void") EXCEPT !.referenceNumber = FirstReference],
   Request("EOD")}

\* socket.on('data') of the second connection, for its one frame
PeerData(req, rnd) ==
  /\ emu.up /\ emu.peer.messageCount = 0
  /\ LET res == reply(store, req, rnd)
     IN /\ Within(res.st)
        /\ store' = res.st
        /\ emu' = [emu EXCEPT !.peer = onFrame(@, req, res)]
  /\ UNCHANGED gatewayVars

\* a setTimeout callback writes the final of frame k of the second connection
PeerTimeout(k) ==
  /\ emu.up
  /\ \E t \in emu.peer.timers :
       /\ t.re = k
       /\ emu' = [emu EXCEPT !.peer.wire = Append(@, t), !.peer.timers = @ \ {t}]
  /\ UNCHANGED <<gatewayVars, store>>

NextShared ==
  \/ \E req \in SharedRequests, rnd \in Rands : OnData(req, rnd)
  \/ \E req \in SharedRequests \ {Request("EOD")}, rnd \in Rands : PeerData(req, rnd)
  \/ \E k \in 1..MaxCmds : Timeout(k)
  \/ PeerTimeout(1)

SpecShared == InitEmulator /\ [][NextShared]_vars

\* The inquiries.  A BatchInquiry or TransactionList frame is decoded on a
\* new connection and routed to its handler; a TransactionList comes with
\* or without a filter, and the transactions of the store were created
\* within one millisecond or not.
InquiryCommands == {"BatchInquiry", "TransactionList"}
Inquiry(command, filtered, sameMs) ==
  /\ emu.up /\ emu.messageCount = 0
  /\ LET req == Request(command)
         res == IF command = "BatchInquiry" THEN handleBatchInquiry(store, req)
                ELSE handleTransactionList(store, req, filtered, sameMs)
     IN /\ store' = res.st
        /\ emu' = onFrame(emu, req, res)
  /\ UNCHANGED gatewayVars

\* sales and voids, and the commands that only read
ReadRequests ==
  {Request("Ping")}
  \cup {[Request("StatusInquiry") EXCEPT !.referenceNumber = x] : x \in References \cup {None}}
InquiryRequests ==
  ReadRequests
  \cup {[Request("Sale") EXCEPT !.amount = 10]}
  \cup {[Request("Void") EXCEPT !.tranNo = x] : x \in TranNos}

NextInquiry ==
  \/ \E req \in InquiryRequests, rnd \in Rands : Command(req, rnd)
  \/ \E command \in InquiryCommands, filtered \in BOOLEAN, sameMs \in BOOLEAN :
        Inquiry(command, filtered, sameMs)
  \/ \E k \in 1..MaxCmds : Timeout(k)
  \/ Reconnect

SpecInquiry == InitEmulator /\ [][NextInquiry]_vars

\* Tips: a Sale of 10.00, a TipAdjust of a transaction by its tranNo with a
\* tip of 0.00 or 2.00, and a batch close, one on each connection.
Tips == {0, 2}
TipRequests ==
  {[Request("Sale") EXCEPT !.amount = 10], Request("EOD")}
  \cup {[Request("TipAdjust") EXCEPT !.tranNo = x, !.amount = tip] : x \in TranNos, tip \in Tips}

NextTips ==
  \/ \E req \in TipRequests, rnd \in Rands : Command(req, rnd)
  \/ \E k \in 1..MaxCmds : Timeout(k)
  \/ Reconnect

SpecTips == InitEmulator /\ [][NextTips]_vars

\* Refunds: a Sale of 10.00 and Refunds of 10.00 that name the first
\* transaction, one command on each connection, with room for one
\* transaction more than elsewhere: a payment and two refunds of it.
RefundRequests ==
  {[Request("Sale") EXCEPT !.amount = 10],
   [Request("Refund") EXCEPT !.amount = 10, !.referenceNumber = FirstReference]}

RefundCommand(req, rnd) ==
  /\ emu.up /\ emu.messageCount = 0
  /\ LET res == reply(store, req, rnd)
     IN /\ res.st.counters.nextRefNo <= MaxIds + 1
        /\ store' = res.st
        /\ emu' = onFrame(emu, req, res)
  /\ UNCHANGED gatewayVars

NextRefunds ==
  \/ \E req \in RefundRequests, rnd \in Rands : RefundCommand(req, rnd)
  \/ \E k \in 1..MaxCmds : Timeout(k)
  \/ Reconnect

SpecRefunds == InitEmulator /\ [][NextRefunds]_vars

\* ------------------------------------------------------------- claims
Last(q) == q[Len(q)]

\* a complete frame <STX><LF> json <LF><ETX> of a final message in the buffer
HasFinalFrame(buf) ==
  \E i \in 1..Len(buf) : \E m \in {"MSG", "RSP", "ERR"} :
    /\ i + 4 <= Len(buf)
    /\ SubSeq(buf, i, i + 4) = <<STX, LF, m, LF, ETX>>

\* C1: every session that was started eventually terminates and resolves
\* its promise, whatever the terminal does, as long as armed timers fire.
C1_SessionTerminates ==
  \A r \in Reqs : (sess[r].sock # "none") ~> (sess[r].finished /\ sess[r].resolves > 0)

\* a session whose terminal sent frames, none of them final, has ended on
\* a timer
C1_Witness ==
  \E r \in Reqs :
    /\ sess[r].finished /\ sess[r].resolves = 1
    /\ sess[r].out.error \in {"idle-timeout", "read-timeout"}
    /\ \E i \in 1..Len(sess[r].log) : sess[r].log[i].type = "recv-json"

\* C2: a session has ok = TRUE only by decoding a frame whose message is
\* MSG, RSP or ERR, which is then its rsp and the last thing it logged; a
\* decoded frame of any other message is followed by its log event and
\* leaves the session running.
C2_OkOnlyOnFinal ==
  \A r \in Reqs :
    LET s == sess[r]
        decodedLast == s.log # <<>> /\ Last(s.log).type = "recv-json"
    IN /\ s.out.ok =>
            /\ s.out.rsp \in {"MSG", "RSP", "ERR"}
            /\ decodedLast /\ Last(s.log).msg = <<s.out.rsp>>
       /\ decodedLast => s.finished /\ s.out.ok
       /\ s.finished /\ ~s.out.ok => s.out.rsp = "" /\ s.out.error # ""

\* a READY progress frame was decoded and the session went on to its final
C2_Witness ==
  \E r \in Reqs :
    /\ sess[r].finished /\ sess[r].out.ok /\ sess[r].out.rsp = "ERR"
    /\ \E i \in 1..Len(sess[r].log) :
         sess[r].log[i] = [type |-> "recv-json", msg |-> <<"READY">>]

\* C3: a session never returns a read or idle timeout while a complete
\* final frame, received before the timer fired, sits in its buffer: such
\* a frame ends the session with ok = TRUE, however the stream was chunked.
C3_FinalFrameWins ==
  \A r \in Reqs :
    sess[r].finished /\ sess[r].out.error \in {"read-timeout", "idle-timeout"}
      => ~HasFinalFrame(sess[r].buffer)

\* C4: whenever a session has resolved its promise, its socket is destroyed
\* and its overall and idle timers are cleared; an HTTP response that
\* carries an outcome is sent with the socket destroyed.
C4_ClosedBeforeOutcome ==
  \A r \in Reqs :
    LET s == sess[r] IN
    /\ s.resolves > 0 =>
         s.sock = "destroyed" /\ ~s.overallTimer.armed /\ ~s.idleTimer.armed
    /\ http[r].rsp.hasOut => s.sock = "destroyed"

C4_Witness ==
  \E r \in Reqs :
    /\ http[r].phase = "responded" /\ http[r].rsp.hasOut
    /\ http[r].rsp.out.ok
    /\ sess[r].sock = "destroyed"

C6_IdleFirst ==
  \A r \in Reqs :
    LET s == sess[r] IN
    s.connected /\ s.chunks = 0 /\ s.idleMs < s.readMs =>
      /\ s.age <= s.idleMs
      /\ s.finished /\ s.out.error \notin ErrMessages =>
           s.out = [ok |-> FALSE, error |-> "idle-timeout", rsp |-> ""] /\ s.age = s.idleMs

C6_Witness ==
  \E r \in Reqs :
    /\ sess[r].finished /\ sess[r].connected /\ sess[r].chunks = 0
    /\ sess[r].idleMs < sess[r].readMs
    /\ sess[r].out.error = "idle-timeout"

\* C7: while a connected session runs, its idle timer counts from the last
\* chunk (or the connect) and its overall timer from the connect; so an
\* idle-timeout ends a session that was quiet for the whole idle window, and
\* a session that ends neither by a final frame nor by a socket error and
\* was not quiet that long ends at the overall expiry with read-timeout.
C7_IdleRearmedOverallNot ==
  \A r \in Reqs :
    LET s == sess[r] IN
    /\ s.connected /\ ~s.finished =>
         /\ s.idleTimer = Armed(s.idleMs - s.quiet)
         /\ s.overallTimer = Armed(s.readMs - s.age)
    /\ s.finished /\ s.out.error = "idle-timeout" => s.quiet = s.idleMs
    /\ s.finished /\ s.out.error = "read-timeout" => s.age = s.readMs
    /\ s.finished /\ s.connected /\ ~s.out.ok /\ s.out.error \notin ErrMessages
         /\ s.quiet < s.idleMs
         => s.out.error = "read-timeout" /\ s.age = s.readMs

\* bytes kept arriving within the idle window until the overall timer fired
C7_Witness ==
  \E r \in Reqs :
    /\ sess[r].finished /\ sess[r].out.error = "read-timeout"
    /\ sess[r].idleMs < sess[r].readMs
    /\ sess[r].chunks >= 2
    /\ sess[r].quiet < sess[r].idleMs

\* C8: the error of a failed session is one of the named transport kinds.
C8_NamedErrorKinds ==
  \A r \in Reqs :
    sess[r].finished /\ ~sess[r].out.ok =>
      sess[r].out.error \in {"connect-timeout", "connect-error", "socket-error",
                             "read-timeout", "idle-timeout"}

\* C9: no handler ends without a response, no request is answered twice,
\* and a response that is not a rejection of the request (success: false)
\* carries the session's outcome (its ok flag) and its log.
C9_OneResponseWithLog ==
  \A r \in Reqs :
    /\ http[r].phase # "rejected"
    /\ http[r].responses <= 1
    /\ http[r].phase = "responded" /\ http[r].rsp.success # "false" =>
         /\ http[r].rsp.hasOut
         /\ http[r].rsp.out = sess[r].out
         /\ http[r].rsp.log = sess[r].log

\* C10: a request opens at most one session and writes the envelope at most
\* once; once it is answered its session is over and stays over.
C10_NoRetry ==
  \A r \in Reqs :
    /\ http[r].opened <= 1
    /\ sess[r].writes <= 1
    /\ http[r].phase = "responded" => sess[r].sock \in {"none", "destroyed"}

\* a session failed after the envelope was written and the request was
\* answered with that failure
C10_Witness ==
  \E r \in Reqs :
    /\ http[r].phase = "responded" /\ http[r].rsp.hasOut /\ ~http[r].rsp.out.ok
    /\ http[r].opened = 1 /\ sess[r].writes = 1

\* a session that was started and has not terminated
Running(s) == s.sock # "none" /\ ~s.finished

\* C11: the sessions of two concurrent requests to the same terminal never
\* overlap: no session is started while another one has not terminated.
C11_NoOverlappingSessions ==
  \A r1, r2 \in Reqs : r1 # r2 => ~(Running(sess[r1]) /\ Running(sess[r2]))

\* the request lacks a field its command requires
MissingRequired(h) ==
  CASE h.ep = "/command" -> ~h.body.command
    [] h.ep \in {"/sale", "/void", "/refund", "/tip-adjust"} -> ~h.body.required
    [] OTHER -> FALSE

\* C12: a request that lacks a required field is answered with HTTP 400
\* and no session to the terminal is opened for it.
C12_MissingFieldRejected ==
  \A r \in Reqs :
    http[r].phase \notin {"none", "idle"} /\ MissingRequired(http[r]) =>
      /\ http[r].opened = 0
      /\ http[r].phase = "responded" /\ http[r].rsp.status = 400

\* the positions on the wire of the replies to frame k with that message
Written(k, message) ==
  {i \in 1..Len(emu.wire) : emu.wire[i].re = k /\ emu.wire[i].frame.message = message}

\* the finals of frame k, written or waiting in a timer
FinalsOf(k) ==
  {emu.wire[i].frame : i \in Written(k, "MSG")} \cup {t.frame : t \in {u \in emu.timers : u.re = k}}

\* C13: a decoded frame that is an ACK or has no command gets no reply;
\* any other frame gets one ACK and exactly one final, written after the
\* ACK or still due, which for an unknown command is Failed with CMD001.
C13_AckThenOneFinal ==
  \A k \in 1..emu.messageCount :
    LET req == emu.log[k]
        pending == {t \in emu.timers : t.re = k}
    IN IF req.json /\ (req.message = "ACK" \/ req.command = "")
       THEN Written(k, "ACK") = {} /\ Written(k, "MSG") = {} /\ pending = {}
       ELSE /\ Cardinality(Written(k, "ACK")) = 1
            /\ Cardinality(Written(k, "MSG")) + Cardinality(pending) = 1
            /\ \A i \in Written(k, "ACK"), j \in Written(k, "MSG") : i < j
            /\ req.json /\ req.command = "Foo" =>
                 \A f \in FinalsOf(k) : f.data.cmdResult = resultFailed("CMD001")

\* C14: every final written in reply to a command has, in its data
\* object, a cmdResult that is Success or Failed, the EcrId and requestId of
\* the request and the command's name as response label.
C14_FinalCarriesEcho ==
  \A i \in 1..Len(emu.wire) :
    LET k == emu.wire[i].re
        f == emu.wire[i].frame
    IN k > 0 /\ f.message = "MSG" /\ emu.log[k].json =>
         /\ f.data.cmdResult.result \in {"Success", "Failed"}
         /\ f.data.EcrId = emu.log[k].EcrId
         /\ f.data.requestId = emu.log[k].requestId
         /\ f.data.response = emu.log[k].command

\* C15: no two transactions of the store share a tranNo, a
\* referenceNumber or a responseId.
C15_UniqueIds ==
  \A i, j \in 1..Len(store.transactions) :
    i # j =>
      /\ store.transactions[i].tranNo # store.transactions[j].tranNo
      /\ store.transactions[i].referenceNumber # store.transactions[j].referenceNumber
      /\ store.transactions[i].responseId # store.transactions[j].responseId

\* C16: every SETTLED transaction's batchId is the id of a batch in the
\* closed list, which is marked not open, and is not the open batch's id.
C16_SettledInClosedBatch ==
  \A i \in 1..Len(store.transactions) :
    store.transactions[i].status = "SETTLED" =>
      /\ \E b \in 1..Len(store.batches) :
           /\ store.batches[b].id = store.transactions[i].batchId
           /\ ~store.batches[b].isOpen
      /\ store.transactions[i].batchId # store.currentBatch.id

\* a settled transaction, and a later one in the batch opened since
C16_Witness ==
  \E i, j \in 1..Len(store.transactions) :
    /\ store.transactions[i].status = "SETTLED"
    /\ store.transactions[j].batchId = store.currentBatch.id

\* the Void records that point at the transaction at index i
VoidsOf(i) ==
  {j \in 1..Len(store.transactions) :
     /\ j # i
     /\ store.transactions[j].type = "Void"
     /\ store.transactions[j].originalTransaction = store.transactions[i].id}

\* C17: each VOIDED transaction is the originalTransaction of exactly one
\* other transaction of type Void.
C17_VoidedHasOneVoid ==
  \A i \in 1..Len(store.transactions) :
    store.transactions[i].status = "VOIDED" => Cardinality(VoidsOf(i)) = 1

\* a sale was voided and the reply to the Void was written
C17_Witness ==
  /\ \E i \in 1..Len(store.transactions) :
       store.transactions[i].status = "VOIDED" /\ store.transactions[i].type = "Sale"
  /\ \E w \in 1..Len(emu.wire) : emu.wire[w].frame.response = "Void"

\* C18: the originalTransaction of a transaction exists, is a Sale, a
\* PreAuth or a TipAdjust, and is in the same batch as a Void that names it.
C18_OriginalIsPayment ==
  \A i \in 1..Len(store.transactions) :
    LET t == store.transactions[i]
    IN t.originalTransaction # 0 =>
         \E j \in 1..Len(store.transactions) :
           LET p == store.transactions[j]
           IN /\ p.id = t.originalTransaction
              /\ p.type \in {"Sale", "PreAuth", "TipAdjust"}
              /\ t.type = "Void" => p.batchId = t.batchId

\* C19: the step that closes a batch leaves every transaction of that
\* batch that was APPROVED or TIP_ADJUSTED SETTLED and nothing unsettled;
\* and while nothing is unsettled, a step that adds no transaction leaves
\* nothing unsettled.
C19_CloseBatchSettlesAll ==
  [][/\ Len(store'.batches) = Len(store.batches) + 1 =>
          /\ Len(store'.transactions) = Len(store.transactions)
          /\ \A i \in 1..Len(store.transactions) :
               /\ store.transactions[i].batchId = store.currentBatch.id
               /\ store.transactions[i].status \in {"APPROVED", "TIP_ADJUSTED"}
               => store'.transactions[i].status = "SETTLED"
          /\ getUnsettledTransactions(store') = {}
     /\ /\ getUnsettledTransactions(store) = {}
        /\ Len(store'.transactions) = Len(store.transactions)
        => getUnsettledTransactions(store') = {}]_vars

\* a batch was closed by the command of this connection and its reply was
\* written: a transaction of that batch is settled and none has been added
\* to the batch opened since
C19_Witness ==
  /\ Len(store.batches) > 0
  /\ \E w \in 1..Len(emu.wire) : emu.wire[w].frame.response \in {"EOD", "SystemReset"}
  /\ \E i \in 1..Len(store.transactions) :
       /\ store.transactions[i].status = "SETTLED"
       /\ store.transactions[i].batchId = store.batches[Len(store.batches)].id
  /\ \A i \in 1..Len(store.transactions) : store.transactions[i].batchId # store.currentBatch.id

Min(a, b) == IF a < b THEN a ELSE b

StatusChanges ==
  {<<"APPROVED", "VOIDED">>, <<"APPROVED", "TIP_ADJUSTED">>, <<"APPROVED", "SETTLED">>,
   <<"TIP_ADJUSTED", "VOIDED">>, <<"TIP_ADJUSTED", "SETTLED">>}

\* C20: a stored transaction changes status only from APPROVED to VOIDED,
\* TIP_ADJUSTED or SETTLED, or from TIP_ADJUSTED to VOIDED or SETTLED; so
\* SETTLED, VOIDED and DECLINED are never left.
C20_StatusChanges ==
  [][\A i \in 1..Min(Len(store.transactions), Len(store'.transactions)) :
       store'.transactions[i].id = store.transactions[i].id =>
         \/ store'.transactions[i].status = store.transactions[i].status
         \/ <<store.transactions[i].status, store'.transactions[i].status>> \in StatusChanges]_vars

\* a Void or TipAdjust of a settled, voided or declined transaction was
\* refused and the transaction is as it was
C20_Witness ==
  /\ \E w \in 1..Len(emu.wire) :
       emu.wire[w].frame.data.cmdResult.errorCode \in {"VOID001", "VOID002", "VOID003", "TIP001"}
  /\ \E i \in 1..Len(store.transactions) :
       store.transactions[i].status \in {"SETTLED", "VOIDED", "DECLINED"}

\* C21: in every state of the store there is exactly one open batch: the
\* current batch is open and no batch of the closed list is, from startup
\* on and after every batch close, soft reset and hard reset.
C21_OneOpenBatch ==
  /\ store.currentBatch.isOpen
  /\ \A i \in 1..Len(store.batches) : ~store.batches[i].isOpen

\* a batch with a settled transaction was closed and the next one is open
C21_Witness ==
  /\ Len(store.batches) = 1
  /\ store.currentBatch.id = 1
  /\ \E i \in 1..Len(store.transactions) : store.transactions[i].status = "SETTLED"

\* the Void commands, and the final of the frame decoded last
VoidRequests == {req \in StoreRequests : req.command = "Void"}
FinalOfLast(c) == (CHOOSE t \in c.timers : t.re = c.messageCount).frame

\* the error code the rules give a Void of identifier x: "absent" where the
\* Void is accepted
VoidRejection(st, x) ==
  LET i == findTransaction(st, x)
  IN IF i = 0 THEN "REF001"
     ELSE IF st.transactions[i].status = "VOIDED" THEN "VOID001"
     ELSE IF st.transactions[i].status = "SETTLED" THEN "VOID002"
     ELSE IF st.transactions[i].status \notin {"APPROVED", "TIP_ADJUSTED"} THEN "VOID003"
     ELSE Absent

\* C22: a Void whose target is not found is refused with REF001, of a
\* VOIDED target with VOID001, of a SETTLED one with VOID002, of one in any
\* other status but APPROVED and TIP_ADJUSTED with VOID003, and a refused
\* Void leaves the store as it was; after an accepted Void the same Void
\* again would be refused with VOID001 and change nothing.
C22_VoidRejections ==
  [][\A req \in VoidRequests, rnd \in Rands :
       Command(req, rnd) =>
         LET code == VoidRejection(store, Or(req.referenceNumber, req.tranNo))
             final == FinalOfLast(emu')
         IN IF code # Absent
            THEN /\ final = sendMsg(Echo(req), "Void", resultFailed(code))
                 /\ store' = store
            ELSE /\ final.data.cmdResult.result # "Failed"
                 /\ \A again \in Rands :
                      /\ handleVoid(store', req, again).st = store'
                      /\ handleVoid(store', req, again).final.data.cmdResult.errorCode = "VOID001"]_vars

\* a transaction was voided and the Void of this connection, naming a
\* voided transaction, was answered VOID001
C22_Witness ==
  /\ \E w \in 1..Len(emu.wire) : emu.wire[w].frame.data.cmdResult.errorCode = "VOID001"
  /\ \E i \in 1..Len(store.transactions) :
       /\ store.transactions[i].type = "Void"
       /\ \E j \in 1..Len(store.transactions) :
            /\ store.transactions[j].id = store.transactions[i].originalTransaction
            /\ store.transactions[j].status = "VOIDED"

\* the Refund commands that carry a referenceNumber
ReferencedRefunds == {req \in StoreRequests : req.command = "Refund" /\ req.referenceNumber # None}

\* a Refund step that was refused with code and left the transactions and
\* the counters as they were
RefundRefused(req, code) ==
  /\ FinalOfLast(emu') = sendMsg(Echo(req), "Refund", resultFailed(code))
  /\ store'.transactions = store.transactions
  /\ store'.counters = store.counters

\* C23: a Refund with a referenceNumber is refused with REF002 when no
\* transaction is found for it and with AMT003 when its amount is more than
\* the found transaction's totalAmount; the refused Refund adds no
\* transaction and advances no counter.
C23_RefundRejections ==
  [][\A req \in ReferencedRefunds, rnd \in Rands :
       Command(req, rnd) =>
         LET i == findTransaction(store, req.referenceNumber)
         IN /\ i = 0 => RefundRefused(req, "REF002")
            /\ i # 0 /\ req.amount > store.transactions[i].totalAmount
                 => RefundRefused(req, "AMT003")]_vars

\* C23 as the code has it: the amount is looked at first.  A Refund with a
\* referenceNumber and an amount of zero or less is refused with AMT002
\* whatever it names; with an amount above zero it is refused with REF002
\* when no transaction is found and with AMT003 when the amount is more
\* than the found transaction's totalAmount; the refused Refund adds no
\* transaction and advances no counter.
C23_RefundRejectionsInOrder ==
  [][\A req \in ReferencedRefunds, rnd \in Rands :
       Command(req, rnd) =>
         LET i == findTransaction(store, req.referenceNumber)
         IN /\ req.amount <= 0 => RefundRefused(req, "AMT002")
            /\ req.amount > 0 /\ i = 0 => RefundRefused(req, "REF002")
            /\ req.amount > 0 /\ i # 0 /\ req.amount > store.transactions[i].totalAmount
                 => RefundRefused(req, "AMT003")]_vars

\* a Refund of more than the total of the sale it names was answered
\* AMT003 and no Refund is stored
C23_Witness ==
  /\ \E w \in 1..Len(emu.wire) : emu.wire[w].frame.data.cmdResult.errorCode = "AMT003"
  /\ \E i \in 1..Len(store.transactions) : store.transactions[i].type = "Sale"
  /\ \A i \in 1..Len(store.transactions) : store.transactions[i].type # "Refund"

\* C24: a Sale of a valid amount whose total is 500.00 or more, or whose
\* PAN ends in 0001, is stored DECLINED, with declineReason AMOUNT TOO HIGH
\* for the total and CARD DECLINED for the PAN, for every total and PAN.
C24_SaleDeclined ==
  [][\A req \in SaleRequests, rnd \in Rands :
       Command(req, rnd) /\ req.amount > 0 /\ (req.amount >= 500 \/ req.cardPAN = "0001") =>
         /\ Len(store'.transactions) = Len(store.transactions) + 1
         /\ Last(store'.transactions).status = "DECLINED"
         /\ Last(store'.transactions).declineReason =
              IF req.amount >= 500 THEN "AMOUNT TOO HIGH" ELSE "CARD DECLINED"]_vars

SettledOf(id) ==
  {i \in 1..Len(store.transactions) :
     store.transactions[i].batchId = id /\ store.transactions[i].status = "SETTLED"}

\* C26: the totalAmount of every closed batch is the sum of totalAmount
\* over the transactions of that batch whose status is SETTLED.
C26_BatchTotal ==
  \A b \in 1..Len(store.batches) :
    store.batches[b].totalAmount = reduce(store.transactions, SettledOf(store.batches[b].id))

\* a batch of two settled transactions of 10.00 each and a total of 20.00
\* was closed
C26_Witness ==
  /\ Len(store.batches) = 1
  /\ store.batches[1].totalAmount = 20
  /\ Cardinality(SettledOf(store.batches[1].id)) = 2

\* C27: the data file, once it exists, holds at every moment the complete
\* text of one snapshot of the data, also when the process ends during a
\* save.
C27_FileIsComplete == store.file.exists => store.file.written = "all"

\* an object whose JSON text is ASCII; the objects written are all valid
Valid(obj) == \A i \in 1..Len(obj.EcrId) : obj.EcrId[i] \in ASCII
AllValid == \A k \in 1..Len(emu.client.sent) : Valid(emu.client.sent[k])

\* the bytes ahead of the first STX
Ahead(bytes) ==
  LET s == IndexOf(bytes, STX, 1)
  IN IF s = 0 THEN bytes ELSE SubSeq(bytes, 1, s - 1)

\* the texts one data event of a connected gateway session decodes
RecvJson(bytes) ==
  LET s == onData(onConnect(sendCommandTcp(DefaultConfig.connectTimeoutMs,
                                           DefaultConfig.readTimeoutMs,
                                           DefaultConfig.idleByteTimeoutMs)), bytes)
  IN SelectSeq(s.log, LAMBDA l : l.type = "recv-json")

\* C28: framing round-trips.  While every object the client has framed is
\* valid, the k-th frame the emulator has decoded is the k-th object
\* written, whatever bytes without STX came before the first frame,
\* whatever line ends came between frames and however the bytes were cut
\* into chunks, and once all bytes have arrived every object has been
\* decoded; FrameAccumulator decodes the same bytes to the same objects;
\* and a gateway session decodes an ACK or MSG frame that comes behind the
\* bytes ahead of the first frame, with line ends or not, as it decodes
\* the frame alone.
C28_RoundTrip ==
  /\ AllValid =>
       LET sent == emu.client.sent
           got == push(emu.client.written, <<>>)
       IN /\ Len(emu.log) <= Len(sent)
          /\ \A k \in 1..Len(emu.log) :
               emu.log[k] = [json |-> TRUE, message |-> sent[k].message,
                             command |-> sent[k].command, requestId |-> sent[k].requestId,
                             EcrId |-> sent[k].EcrId]
          /\ emu.client.wire = <<>> => Len(emu.log) = Len(sent)
          /\ Len(got.frames) = Len(sent)
          /\ \A k \in 1..Len(sent) :
               parse(got.frames[k]) = [ok |-> TRUE, message |-> sent[k].message,
                                       command |-> sent[k].command,
                                       requestId |-> sent[k].requestId, EcrId |-> sent[k].EcrId]
  /\ \A fill \in Fillers, m \in {AckMessage, "MSG"} :
       /\ RecvJson(frameJson(m)) = <<[type |-> "recv-json", msg |-> <<m>>]>>
       /\ RecvJson(Ahead(emu.client.written) \o fill \o frameJson(m)) = RecvJson(frameJson(m))

\* two valid objects, one with a quote and one with a control character in
\* its EcrId, were written behind bytes that hold an ETX, with line ends
\* between them, and the emulator has decoded both
C28_Witness ==
  /\ Len(emu.client.sent) = 2 /\ AllValid
  /\ emu.client.sent[1].EcrId = <<"\"", "a">> /\ emu.client.sent[2].EcrId = <<"a", ETX>>
  /\ SubSeq(emu.client.written, 1, 2) = <<ETX, "a">>
  /\ \E i \in 1..Len(emu.client.written) - 2 :
       SubSeq(emu.client.written, i, i + 2) = <<LF, LF, STX>>
  /\ emu.client.wire = <<>>
  /\ Len(emu.log) = 2

\* ------------------------------------------------------------- C29
\* C29: whenever a timer callback of a session runs while both its
\* overall-read timer and its idle-read timer are expired, the session
\* terminates with read-timeout, never with idle-timeout.
C29_OverallWins ==
  [][\A r \in Reqs :
       (/\ Expired(sess[r].overallTimer)
        /\ Expired(sess[r].idleTimer)
        /\ FireOverall(r) \/ FireIdle(r))
       => /\ sess'[r].finished
          /\ sess'[r].out.error = "read-timeout"]_vars

\* ------------------------------------------------------------- C30
\* a complete frame lies in the buffer of session s
FrameWaiting(s) ==
  LET st == IndexOf(s.buffer, STX, 1)
  IN st # 0 /\ IndexOf(s.buffer, ETX, st + 1) # 0

\* C30: a frame that reached the engine after the final frame of its
\* session, a second frame of the final's chunk included, is logged as
\* late-frame, and the session has resolved once, with the final as rsp.
C30_LateFrameLogged ==
  \A r \in Reqs :
    (sess[r].finished /\ sess[r].out.ok /\ FrameWaiting(sess[r]))
    => /\ \E i \in 1..Len(sess[r].log) : sess[r].log[i].type = "late-frame"
       /\ sess[r].resolves = 1
       /\ sess[r].out.rsp \in FinalMessages

\* ------------------------------------------------------------- C31
\* the session has received a frame whose text JSON.parse rejected
Malformed(s) ==
  \E i \in 1..Len(s.log) : s.log[i] = [type |-> "recv-json", msg |-> <<NonJson>>]

\* the first complete frame waiting in the buffer of s is a final frame
FinalWaiting(s) ==
  LET st == IndexOf(s.buffer, STX, 1)
      en == IndexOf(s.buffer, ETX, st + 1)
  IN /\ st # 0 /\ en # 0
     /\ LET text == Trim(Slice(s.buffer, st + 1, en - 1))
        IN Len(text) = 1 /\ text[1] \in FinalMessages

\* C31: a received frame with malformed JSON is logged as invalid-frame,
\* and a final frame that followed it, in the same chunk or a later one,
\* has been decoded: it does not wait in the buffer, and no session ends
\* with an error while it waits.
C31_MalformedFrameSkipped ==
  \A r \in Reqs :
    Malformed(sess[r])
    => /\ \E i \in 1..Len(sess[r].log) : sess[r].log[i].type = "invalid-frame"
       /\ ~FinalWaiting(sess[r])

\* ------------------------------------------------------------- C32
\* the Void records of transaction i of store st
VoidRecords(st, i) ==
  {j \in 1..Len(st.transactions) :
     /\ st.transactions[j].type = "Void"
     /\ st.transactions[j].originalTransaction = st.transactions[i].id}

\* the finals the step has handed to a timer, on either connection
NewFinals ==
  {t.frame : t \in (emu'.timers \ emu.timers) \cup (emu'.peer.timers \ emu.peer.timers)}

\* C32: the handlers are one critical section over the store.  Whatever
\* the two connections have done before, a Void of the first transaction
\* that finds it APPROVED marks it VOIDED, adds its one Void record and
\* gets the success final; a Void that finds it VOIDED changes nothing and
\* gets VOID001; so of two Voids of an APPROVED transaction one succeeds
\* and the other is rejected, and no transaction has two Void records.
C32_CriticalSection ==
  [][\A rnd \in Rands :
       LET req == [Request("Void") EXCEPT !.referenceNumber = FirstReference]
           i == findTransaction(store, FirstReference)
       IN (OnData(req, rnd) \/ PeerData(req, rnd)) /\ i # 0
          => /\ store.transactions[i].status = "APPROVED"
                => /\ VoidRecords(store, i) = {}
                   /\ store'.transactions[i].status = "VOIDED"
                   /\ Cardinality(VoidRecords(store', i)) = 1
                   /\ NewFinals = {sendData(req, "Void")}
             /\ store.transactions[i].status = "VOIDED"
                => /\ store' = store
                   /\ Cardinality(VoidRecords(store', i)) = 1
                   /\ NewFinals = {sendMsg(Echo(req), "Void", resultFailed("VOID001"))}]_vars

\* the first transaction is VOIDED with one Void record, one connection
\* holds the success final of its Void and the other the VOID001 final of
\* its own
C32_Witness ==
  /\ Len(store.transactions) = 2
  /\ store.transactions[1].status = "VOIDED"
  /\ Cardinality(VoidRecords(store, 1)) = 1
  /\ \E a \in emu.timers, b \in emu.peer.timers :
       {a.frame.data.cmdResult.errorCode, b.frame.data.cmdResult.errorCode} = {Absent, "VOID001"}

\* ------------------------------------------------------------- C33
\* C33: the final frame is the commit point of a command.  When the
\* handler of a command has run and its final still waits in a timer, so
\* that the session can end (timeout, socket error, disconnect) before the
\* final is sent, the store holds no change made by the command.
C33_FinalIsCommitPoint ==
  [][\A req \in StoreRequests, rnd \in Rands :
       (Command(req, rnd) /\ emu'.timers # {}) => Data(store') = Data(store)]_vars

\* ------------------------------------------------------------- C34
\* What processFrames makes of the frames the terminal wrote: the position
\* of the first whose message is RSP, ERR or MSG, which ends the session
\* and is its rsp; 0 while there is none.
FirstFinal(wire) ==
  LET hits == {i \in 1..Len(wire) : wire[i].frame.message \in FinalMessages}
  IN IF hits = {} THEN 0 ELSE CHOOSE i \in hits : \A j \in hits : i <= j

\* C34: on a connection that has carried one frame, a command, as the
\* sessions of the gateway do, the frame the engine returns as rsp is the
\* emulator's reply to that command, never the SystemReady welcome message
\* of the connection.
C34_RspIsReply ==
  (/\ emu.messageCount = 1
   /\ emu.log[1].json /\ emu.log[1].message # "ACK" /\ emu.log[1].command # "")
  => LET i == FirstFinal(emu.wire)
     IN i # 0 => emu.wire[i].re = 1 /\ emu.wire[i].frame.data.response # "SystemReady"

\* ------------------------------------------------------------- C35
\* C35: the outcome of a session is decided once.  From the step in which
\* done has run, no step changes ok, error or rsp, the session stays
\* finished, and the promise has been resolved once: a timer callback that
\* runs later finds finished set and returns.
C35_DecidedOnce ==
  [][\A r \in Reqs :
       /\ sess'[r].resolves <= 1
       /\ sess[r].finished
          => /\ sess'[r].finished
             /\ sess'[r].out = sess[r].out
             /\ sess'[r].resolves = sess[r].resolves]_vars

\* the connection was refused, done has run with that error, and the
\* connect guard, which done does not clear, has expired and run after it
C35_Witness ==
  \E r \in Reqs :
    /\ sess[r].finished /\ ~sess[r].connected
    /\ sess[r].out = [ok |-> FALSE, error |-> "connect ECONNREFUSED", rsp |-> ""]
    /\ sess[r].connectGuard = Cleared
    /\ sess[r].resolves = 1

\* ------------------------------------------------------------- C36
\* C36: a Ping, StatusInquiry, BatchInquiry or TransactionList leaves the
\* store as it was: the transactions in their order, the batches, the
\* counters and the data file; and what findTransaction returned for a
\* reference before the command it returns after it.
C36_ReadOnly ==
  [][(/\ emu'.messageCount = emu.messageCount + 1
      /\ emu'.log[emu'.messageCount].command \in
           {"Ping", "StatusInquiry", "BatchInquiry", "TransactionList"})
     => /\ store' = store
        /\ \A x \in References :
             LET i == findTransaction(store, x)
                 j == findTransaction(store', x)
             IN (i = 0 <=> j = 0) /\ (i # 0 => store'.transactions[j] = store.transactions[i])]_vars

\* ------------------------------------------------------------- C37
\* C37: after a TipAdjust with tip x that succeeded, the stored transaction
\* is TIP_ADJUSTED and its amounts.totalAmount is the base amount plus x
\* (there is no tax), which is the totalAmount of the reply.
C37_TipStored ==
  [][\A req \in TipRequests, rnd \in Rands :
       LET i == findTransaction(store, req.tranNo)
           final == FinalOfLast(emu')
       IN (/\ req.command = "TipAdjust"
           /\ Command(req, rnd)
           /\ final.response = "TipAdjust")
          => /\ store'.transactions[i].status = "TIP_ADJUSTED"
             /\ store'.transactions[i].totalAmount = store.transactions[i].totalAmount + req.amount
             /\ store'.transactions[i].totalAmount = final.payload.totalAmount]_vars

\* ------------------------------------------------------------- C38
\* the approved Refund records of transaction i
RefundsOf(i) ==
  {j \in 1..Len(store.transactions) :
     /\ store.transactions[j].type = "Refund"
     /\ store.transactions[j].status = "APPROVED"
     /\ store.transactions[j].originalTransaction = store.transactions[i].id}

\* C38: the amounts of the approved Refunds of a transaction add up to no
\* more than its totalAmount.
C38_RefundsWithinOriginal ==
  \A i \in 1..Len(store.transactions) :
    reduce(store.transactions, RefundsOf(i)) <= store.transactions[i].totalAmount

\* ------------------------------------------------------------- C39
\* the data d holds no SETTLED transaction of its open batch and no VOIDED
\* transaction without a Void record
Sound(d) ==
  \A i \in 1..Len(d.transactions) :
    /\ d.transactions[i].status = "SETTLED" => d.transactions[i].batchId # d.currentBatch.id
    /\ d.transactions[i].status = "VOIDED" =>
         \E j \in 1..Len(d.transactions) :
           /\ d.transactions[j].type = "Void"
           /\ d.transactions[j].originalTransaction = d.transactions[i].id

\* C39: every snapshot written to the data file satisfies what holds of
\* the store between commands: no SETTLED transaction of the open batch,
\* no VOIDED transaction without its Void record.
C39_SnapshotsSound ==
  /\ Sound(Data(store))
  /\ \A d \in store.file.writes : Sound(d)

\* ------------------------------------------------------------- C40
\* C40: the open batch has an id B0001, B0002, ... (here a number from 1
\* on; 0 stands for null) that no closed batch has, and every transaction
\* carries such an id as its batchId.
C40_BatchIds ==
  /\ store.currentBatch.id >= 1
  /\ \A b \in 1..Len(store.batches) : store.batches[b].id # store.currentBatch.id
  /\ \A i \in 1..Len(store.transactions) : store.transactions[i].batchId >= 1
====
